---- MODULE Spec2Model ----
(***************************************************************************)
(* Model of simple-ebook-manager:                                          *)
(*   src/all_metadata.py   AllMetadata.from_args and its three passes      *)
(*   src/book/sortdisplay.py  SortDisplay and its key property             *)
(*   src/util/schema.py    Schema.from_args                                *)
(*   src/book/book.py      Book.from_args, Book.write_metadata             *)
(*   src/book/file.py      BookFile.from_args                              *)
(*   src/csv.py            _write_csvs and the rows it writes              *)
(*   src/db/db.py          _create_tables, with the statements of sql.py   *)
(* Python strings are TLA+ strings; their order (code-point order) is the  *)
(* position in StrOrder.  Python None is the string None.                  *)
(***************************************************************************)
EXTENDS Integers, Sequences, FiniteSets, TLC

VARIABLES
    pc,         \* position in AllMetadata.from_args
    run,        \* 1 for the first call of from_args, 2 for the repeated call
    b_dirs,     \* the books read without error from the book directories, in discovery order
    titles,     \* _get_books: local list titles
    displays,   \* _get_books: local list displays
    sorts,      \* _get_books: local list sorts
    books,      \* _get_books: local list books, then books_no_keys (sorted)
    book_title, \* _get_books: book.title of the book read last, or NoTitle
    key_type,   \* from_args: argument key_type
    rng,        \* the stream of tokens uuid.uuid4() has not yet returned
    sd_sets,    \* _get_sd_dicts: sd_sets, field name -> set of SortDisplay
    sd_dicts,   \* _get_sd_dicts: sd_dicts, field name -> keyed SortDisplays in insertion order
    fi,         \* _get_sd_dicts: number of fields of sd_sets already processed
    bi,         \* _get_books_with_keys: number of books already keyed
    err,        \* the exception that ended from_args, or NoErr
    am,         \* the AllMetadata returned by this call, or None
    am1,        \* the AllMetadata returned by the first call, or None
    schema_dict,    \* Schema.from_args: argument schema_dict, its items in order
    schema_items,   \* Schema.from_args: local list schema_items
    spc,            \* position in Schema.from_args
    schema,         \* what Schema.from_args returned or raised, or NoSchema
    lpc,            \* position in Book.from_args / Book.write_metadata
    lrun,           \* 1 while the book directory is loaded first, 2 for the reload
    li,             \* Book.from_args: number of schema items already processed
    lschema,        \* the Schema the book is loaded and written with
    dir_vars,       \* Book.from_args: argument dir_vars, sorted
    metadata,       \* the metadata record of the book directory, field name -> JSON value
    string_fn,      \* the text file get_string_fn names: whether it exists, and its text
    lbook,          \* Book.from_args: title, fields and files built so far, then the Book
    lbook1,         \* the Book the first load returned
    lerr,           \* the exception that ended Book.from_args, or NoLErr
    cpc,            \* position in csv._write_csvs
    split,          \* _write_csvs: argument split
    csv_files,      \* the CSV files written, in the order written: name and rows
    cerr,           \* the exception that ended _write_csvs, or None
    csv_files1,     \* the CSV files the first call of _write_csvs left
    dpc,            \* position in db._create_tables
    dschema,        \* _create_tables: argument schema, its items in order
    use_uuid_key,   \* _create_tables: argument use_uuid_key
    di,             \* _create_tables: number of schema items already processed
    executed,       \* the statements conn.execute has run, in order
    wpc,            \* position in db._write_db
    wrun,           \* 1 for the first call of _write_db, 2 for the repeated call
    db_fn,          \* whether the database file exists
    conn,           \* the database of the connection: objects created, rows inserted
    conn1,          \* the database the first call of _write_db left
    wstart,         \* _write_db: loop variable start
    wcall,          \* number of executemany calls made by this call of _write_db
    werr,           \* the exception that ended _write_db, or None
    user_sql_fn,    \* _write_db: whether argument user_sql_fn is given
    committed,      \* whether the with block of _write_db has committed
    script_ran,     \* whether conn.executescript has run the user SQL file
    vpc,            \* position in the computation of one lookup formula
    vschema,        \* csv._write_csvs: argument schema
    vnum_rows,      \* the number of data rows of the sheet the formula looks into
    vkey,           \* _get_vlookup: argument key
    vlookup,        \* the formula _get_vlookup returned, or NoVlookup
    kpc,            \* position in clean._clean
    krun,           \* 1 for the first clean run, 2 for the repeated run
    library,        \* the book directories: metadata file, text file, stored files
    lib_before,     \* the book directories as this run found them
    kam,            \* the books AllMetadata.from_args returned to this run
    kalgo,          \* _clean: argument algo, or None
    inputs,         \* get_file_hashes: argument inputs
    results,        \* the hashes the workers of the Pool have returned, by task
    finished,       \* the tasks in the order their workers finished
    hashes,         \* _clean: local dict hashes, file name -> hash
    ki,             \* _clean: number of books already processed
    changes_found,  \* _clean: local changes_found
    replaced,       \* the files shutil.move has replaced in this run, in order
    kmsg            \* the last message of _clean, or None

nvars == <<pc, run, b_dirs, titles, displays, sorts, books, book_title, key_type, rng,
           sd_sets, sd_dicts, fi, bi, err, am, am1>>
svars == <<schema_dict, schema_items, spc, schema>>
lvars == <<lpc, lrun, li, lschema, dir_vars, metadata, string_fn, lbook, lbook1, lerr>>
cvars == <<cpc, split, csv_files, cerr, csv_files1>>
dvars == <<dpc, dschema, use_uuid_key, di, executed>>
wvars == <<wpc, wrun, db_fn, conn, conn1, wstart, wcall, werr, user_sql_fn, committed,
           script_ran>>
vvars == <<vpc, vschema, vnum_rows, vkey, vlookup>>
kvars == <<kpc, krun, library, lib_before, kam, kalgo, inputs, results, finished, hashes, ki,
           changes_found, replaced, kmsg>>
xvars == <<lvars, cvars, dvars, wvars, vvars, kvars>>
vars == <<nvars, svars, xvars>>

None == "None"

\* ---------------------------------------------------------------- bounds
MaxBooks == 3       \* book directories visited by one call
MaxVals == 2        \* values of one Reference field of one book
NumUUID == 10       \* tokens uuid.uuid4() can return before the stream ends

\* ---------------------------------------------------------------- strings
\* The strings of the model in ascending code-point order.
StrOrder == <<"a", "b", "x", "y">>
Pos(s) == CHOOSE i \in 1..Len(StrOrder) : StrOrder[i] = s
StrLt(s, t) == Pos(s) < Pos(t)
Strs == {"a", "b"}
Range(seq) == {seq[i] : i \in 1..Len(seq)}

\* ---------------------------------------------------------------- SortDisplay
SortDisplay(sort, display, key) == [sort |-> sort, display |-> display, _key |-> key]

\* dataclass(order=True): compared as the tuple (sort, display, _key); the
\* values compared here never differ in _key alone.
SDLt(x, y) ==
    \/ StrLt(x.sort, y.sort)
    \/ x.sort = y.sort /\ StrLt(x.display, y.display)

\* No book has been read yet.
NoTitle == SortDisplay(None, None, None)

SimpleEbookManagerException == "SimpleEbookManagerException"

\* The mutant of key: hands back _key whatever it is.
key_unchecked(sd) == sd._key

\* SortDisplay.key
key(sd) == IF sd._key = None THEN SimpleEbookManagerException ELSE sd._key

RECURSIVE sorted_sds(_)
\* sorted(sd_set)
sorted_sds(S) ==
    IF S = {} THEN <<>>
    ELSE LET m == CHOOSE x \in S : \A y \in S \ {x} : SDLt(x, y)
         IN  <<m>> \o sorted_sds(S \ {m})

\* ---------------------------------------------------------------- books
\* SortDisplay fields of the schema, in schema order.
RefFields == <<"authors", "editors">>
RefFieldSet == Range(RefFields)

SDPool == {SortDisplay(s, d, None) : s \in Strs, d \in Strs}

\* What _get_sortdisplays returns: sorted, no two values with one sort or one display.
SDSeqs(pool, max) ==
    {sorted_sds(S) : S \in {T \in SUBSET pool :
        /\ Cardinality(T) <= max
        /\ \A x, y \in T : x # y => x.sort # y.sort /\ x.display # y.display}}

AuthorsPool == SDSeqs(SDPool, MaxVals)
EditorsPool == SDSeqs({sd \in SDPool : sd.sort = "a"}, MaxVals - 1)
TitlePool == {sd \in SDPool : sd.sort = sd.display \/ sd.sort = "a"}

BookFile(book_title_sort, basename, metadata_dir) ==
    [book_title_sort |-> book_title_sort, basename |-> basename,
     metadata_dir |-> metadata_dir,
     hash |-> "md5:" \o basename \o ToString(metadata_dir)]

\* What _get_files returns for the file names of one metadata record.
FileNamesPool == {<<>>, <<"x", "y">>}

Book(title, metadata_dir, sortdisplays, files) ==
    [title |-> title, metadata_dir |-> metadata_dir,
     fields |-> [sortdisplays |-> sortdisplays], files |-> files]

\* Book.from_args for the i-th book directory.
BookPool(i) ==
    {Book(t, i, [f \in RefFieldSet |-> IF f = "authors" THEN a ELSE e],
          [k \in 1..Len(fs) |-> BookFile(t.sort, fs[k], i)]) :
        t \in TitlePool, a \in AuthorsPool, e \in EditorsPool, fs \in FileNamesPool}

\* dataclass(order=True) of Book: the title decides, titles being distinct.
BookLt(x, y) == SDLt(x.title, y.title)

\* dataclass(order=True) of BookFile: (book_title_sort, basename, ...).
FileLt(x, y) ==
    \/ StrLt(x.book_title_sort, y.book_title_sort)
    \/ x.book_title_sort = y.book_title_sort /\ StrLt(x.basename, y.basename)

\* ---------------------------------------------------------------- errors
SimpleEbookManagerExit == "SimpleEbookManagerExit"
\* An exception: its class, which message it carries (kind), and the field
\* name and the values the message names.
NoErr == [exc |-> None, kind |-> None, field |-> None, val |-> None, val2 |-> None]
Exit(kind, field, val, val2) ==
    [exc |-> SimpleEbookManagerExit, kind |-> kind, field |-> field,
     val |-> val, val2 |-> val2]

InSeq(x, seq) == \E i \in 1..Len(seq) : seq[i] = x

\* ---------------------------------------------------------------- _get_books
\* The mutant of _get_books_check: the display check left out.
_get_books_check_no_display(book) ==
    IF InSeq(book.title, titles)
        THEN Exit("title_sort_display", None, book.title.sort, book.title.display)
    ELSE IF InSeq(book.title.sort, sorts)
        THEN Exit("title_sort", None, book.title.sort, None)
    ELSE NoErr

\* The mutant of _get_books_check: the sort check left out.
_get_books_check_no_sort(book) ==
    IF InSeq(book.title, titles)
        THEN Exit("title_sort_display", None, book.title.sort, book.title.display)
    ELSE IF InSeq(book.title.display, displays)
        THEN Exit("title_display", None, book.title.display, None)
    ELSE NoErr

\* The error one iteration of _get_books raises for book, or NoErr.
_get_books_check(book) ==
    IF InSeq(book.title, titles)
        THEN Exit("title_sort_display", None, book.title.sort, book.title.display)
    ELSE IF InSeq(book.title.display, displays)
        THEN Exit("title_display", None, book.title.display, None)
    ELSE IF InSeq(book.title.sort, sorts)
        THEN Exit("title_sort", None, book.title.sort, None)
    ELSE NoErr

\* The book directory visited next: read from disk on the first call, the
\* same directory again on the repeated call.
NextBooks ==
    IF run = 1
        THEN IF Len(b_dirs) < MaxBooks THEN BookPool(Len(b_dirs) + 1) ELSE {}
    ELSE IF Len(books) < Len(b_dirs) THEN {b_dirs[Len(books) + 1]} ELSE {}

\* One iteration of the loop of _get_books.
GetBooksIter ==
    /\ pc = "get_books"
    /\ \E book \in NextBooks :
        LET e == _get_books_check(book) IN
        /\ book_title' = book.title
        /\ IF e # NoErr
             THEN /\ err' = e
                  /\ pc' = "error"
                  /\ UNCHANGED <<b_dirs, titles, displays, sorts, books>>
             ELSE /\ titles' = Append(titles, book.title)
                  /\ displays' = Append(displays, book.title.display)
                  /\ sorts' = Append(sorts, book.title.sort)
                  /\ books' = Append(books, book)
                  /\ b_dirs' = IF run = 1 THEN Append(b_dirs, book) ELSE b_dirs
                  /\ UNCHANGED <<pc, err>>
    /\ UNCHANGED <<run, key_type, rng, sd_sets, sd_dicts, fi, bi, am, am1, svars, xvars>>

\* get_all_book_dirs finds no book directory.
NoBookDirs ==
    /\ pc = "get_books"
    /\ run = 1
    /\ b_dirs = <<>>
    /\ err' = Exit("no_book_dirs", None, None, None)
    /\ pc' = "error"
    /\ UNCHANGED <<run, b_dirs, titles, displays, sorts, books, book_title, key_type, rng,
                   sd_sets, sd_dicts, fi, bi, am, am1, svars, xvars>>

\* The mutant of sorted_books: the books stay in discovery order.
sorted_books_off(bks) == bks

\* tuple(sorted(books))
sorted_books(bks) == SortSeq(bks, BookLt)

\* _get_books returns tuple(sorted(books)) once every book directory is read.
GetBooksReturn ==
    /\ pc = "get_books"
    /\ Len(books) >= 1
    /\ run = 2 => Len(books) = Len(b_dirs)
    /\ books' = sorted_books(books)
    /\ pc' = "get_sd_dicts"
    /\ UNCHANGED <<run, b_dirs, titles, displays, sorts, book_title, key_type, rng,
                   sd_sets, sd_dicts, fi, bi, err, am, am1, svars, xvars>>

\* ---------------------------------------------------------------- _get_sd_dicts
KeyTypes == {"INT", "NONE", "UUID"}

\* str(uuid.uuid4()) returns a token never returned before: the head of the
\* stream.  The streams differ in the order of their tokens.
UUIDs == [i \in 1..NumUUID |-> "u" \o ToString(i)]
UUIDSet == Range(UUIDs)
RngStreams == {UUIDs, [i \in 1..NumUUID |-> UUIDs[NumUUID + 1 - i]]}

\* The first loop of _get_sd_dicts: the union of the books' values per field.
\* key_type is read here for the first time: the first call draws it (and
\* the token stream) here, the repeated call keeps both.
GetSdDictsUnion ==
    /\ pc = "get_sd_dicts"
    /\ pc' = "get_sd_dicts_loop"
    /\ sd_sets' = [f \in RefFieldSet |->
            UNION {Range(books[i].fields.sortdisplays[f]) : i \in 1..Len(books)}]
    /\ IF run = 1
          THEN \E kt \in KeyTypes :
                /\ key_type' = kt
                /\ rng' \in (IF kt = "UUID" THEN RngStreams ELSE {UUIDs})
          ELSE UNCHANGED <<key_type, rng>>
    /\ UNCHANGED <<run, b_dirs, titles, displays, sorts, books, book_title,
                   sd_dicts, fi, bi, err, am, am1, svars, xvars>>

Min(S) == CHOOSE i \in S : \A j \in S : i <= j

\* The key an entry of rank i (1-based) gets.
sd_key(kt, i, stream) ==
    CASE kt = "INT" -> ToString(i)
      [] kt = "NONE" -> None
      [] kt = "UUID" -> stream[i]

\* The mutant of dup_displays: the display check left out.
dup_displays_off(disp) == {}

\* The indices i with displays[i] == displays[i + 1].
dup_displays(disp) == {i \in 1..(Len(disp) - 1) : disp[i] = disp[i + 1]}

\* The mutant of dup_sorts: the sort check left out.
dup_sorts_off(sd_list) == {}

\* The indices i with sd.sort == sd_list[i + 1].sort.
dup_sorts(sd_list) == {i \in 1..(Len(sd_list) - 1) : sd_list[i].sort = sd_list[i + 1].sort}

\* One iteration of the loop over sd_sets.items(): the display check, then the
\* loop over sorted(sd_set) that checks the sorts and assigns the keys.
\* Gives the error raised (or NoErr), the entries of sd_dicts[fieldname] in
\* insertion order, and the tokens left.
_get_sd_dicts_field(fieldname, sd_set, kt, stream) ==
    LET sd_list == sorted_sds(sd_set)
        n == Len(sd_list)
        disp == SortSeq([i \in 1..n |-> sd_list[i].display], StrLt)
        dupD == dup_displays(disp)
        dupS == dup_sorts(sd_list)
        drawn(k) == IF kt = "UUID" THEN SubSeq(stream, k + 1, Len(stream)) ELSE stream
    IN  IF dupD # {}
            THEN [err |-> Exit("sd_display", fieldname, disp[Min(dupD)], None),
                  entries |-> <<>>, rng |-> stream]
        ELSE IF dupS # {}
            THEN [err |-> Exit("sd_sort", fieldname, sd_list[Min(dupS)].sort, None),
                  entries |-> <<>>, rng |-> drawn(Min(dupS) - 1)]
        ELSE [err |-> NoErr,
              entries |-> [i \in 1..n |->
                  SortDisplay(sd_list[i].sort, sd_list[i].display, sd_key(kt, i, stream))],
              rng |-> drawn(n)]

\* The loop over sd_sets.items() visits the fields in insertion order, which
\* is the schema order, every book holding every SortDisplay field.
GetSdDictsField ==
    /\ pc = "get_sd_dicts_loop"
    /\ fi < Len(RefFields)
    /\ key_type = "UUID" => Len(rng) >= Cardinality(sd_sets[RefFields[fi + 1]])
    /\ LET f == RefFields[fi + 1]
           r == _get_sd_dicts_field(f, sd_sets[f], key_type, rng)
       IN  /\ rng' = r.rng
           /\ IF r.err # NoErr
                THEN /\ err' = r.err
                     /\ pc' = "error"
                     /\ UNCHANGED <<sd_dicts, fi>>
                ELSE /\ fi' = fi + 1
                     \* sd_dicts[fieldname] comes to exist with its first entry
                     /\ sd_dicts' = IF r.entries = <<>> THEN sd_dicts
                                    ELSE [g \in DOMAIN sd_dicts \cup {f} |->
                                            IF g = f THEN r.entries ELSE sd_dicts[g]]
                     /\ UNCHANGED <<pc, err>>
    /\ UNCHANGED <<run, b_dirs, titles, displays, sorts, books, book_title, key_type,
                   sd_sets, bi, am, am1, svars, xvars>>

\* _get_sd_dicts returns; from_args goes on to _get_books_with_keys unless
\* key_type is NONE.
GetSdDictsReturn ==
    /\ pc = "get_sd_dicts_loop"
    /\ fi = Len(RefFields)
    /\ pc' = IF key_type # "NONE" THEN "get_books_with_keys" ELSE "return"
    /\ UNCHANGED <<run, b_dirs, titles, displays, sorts, books, book_title, key_type, rng,
                   sd_sets, sd_dicts, fi, bi, err, am, am1, svars, xvars>>

\* ---------------------------------------------------------------- _get_books_with_keys
\* The mutant of sd_lookup: the book keeps its unkeyed value.
sd_lookup_unchanged(entries, sd) == sd

\* sd_dicts[fieldname][sd]: the entry stored under the unkeyed value sd.
sd_lookup(entries, sd) ==
    CHOOSE e \in Range(entries) : e.sort = sd.sort /\ e.display = sd.display

\* The mutant of title_key: str(i + 1) in every key mode.
title_key_always_int(kt, i, stream) == ToString(i)

\* The mutant of title_key: str(i) for the 0-based index i.
title_key_zero_based(kt, i, stream) == IF kt = "UUID" THEN stream[1] ELSE ToString(i - 1)

\* The _key of the title of the book at 1-based position i:
\* str(uuid.uuid4()) if key_type == KeyType.UUID else str(i + 1), i 0-based.
title_key(kt, i, stream) == IF kt = "UUID" THEN stream[1] ELSE ToString(i)

\* One iteration of the loop of _get_books_with_keys: the book is changed in place.
_get_books_with_keys_iter(book, i, dicts, kt, stream) ==
    [book EXCEPT
        !.title = SortDisplay(book.title.sort, book.title.display, title_key(kt, i, stream)),
        !.fields.sortdisplays = [f \in RefFieldSet |->
            [k \in 1..Len(book.fields.sortdisplays[f]) |->
                sd_lookup(dicts[f], book.fields.sortdisplays[f][k])]]]

GetBooksWithKeysIter ==
    /\ pc = "get_books_with_keys"
    /\ bi < Len(books)
    /\ key_type = "UUID" => Len(rng) >= 1
    /\ books' = [books EXCEPT ![bi + 1] =
            _get_books_with_keys_iter(books[bi + 1], bi + 1, sd_dicts, key_type, rng)]
    /\ rng' = IF key_type = "UUID" THEN Tail(rng) ELSE rng
    /\ bi' = bi + 1
    /\ UNCHANGED <<pc, run, b_dirs, titles, displays, sorts, book_title, key_type,
                   sd_sets, sd_dicts, fi, err, am, am1, svars, xvars>>

GetBooksWithKeysReturn ==
    /\ pc = "get_books_with_keys"
    /\ bi = Len(books)
    /\ pc' = "return"
    /\ UNCHANGED <<run, b_dirs, titles, displays, sorts, books, book_title, key_type, rng,
                   sd_sets, sd_dicts, fi, bi, err, am, am1, svars, xvars>>

\* ---------------------------------------------------------------- AllMetadata.from_args
RECURSIVE chain(_)
\* chain.from_iterable
chain(seqs) == IF seqs = <<>> THEN <<>> ELSE Head(seqs) \o chain(Tail(seqs))

AllMetadata(bks, fields, files) == [books |-> bks, fields |-> fields, files |-> files]
NoAM == AllMetadata(<<>>, <<>>, <<>>)

\* tuple(sorted(chain.from_iterable([book.files for book in books_no_keys])))
am_files(bks) == SortSeq(chain([i \in 1..Len(bks) |-> bks[i].files]), FileLt)

\* from_args builds and returns the AllMetadata.
FromArgsReturn ==
    /\ pc = "return"
    /\ am' = AllMetadata(books, sd_dicts, am_files(books))
    /\ pc' = "done"
    /\ UNCHANGED <<run, b_dirs, titles, displays, sorts, books, book_title, key_type, rng,
                   sd_sets, sd_dicts, fi, bi, err, am1, svars, xvars>>

\* from_args is called again on the same book directories with the same key_type.
FromArgsAgain ==
    /\ pc = "done"
    /\ run = 1
    /\ run' = 2
    /\ am1' = am
    /\ am' = NoAM
    /\ pc' = "get_books"
    /\ titles' = <<>> /\ displays' = <<>> /\ sorts' = <<>> /\ books' = <<>>
    /\ book_title' = NoTitle
    /\ sd_sets' = [f \in RefFieldSet |-> {}]
    /\ sd_dicts' = <<>>
    /\ fi' = 0 /\ bi' = 0
    /\ UNCHANGED <<b_dirs, key_type, rng, err, svars, xvars>>

\* ---------------------------------------------------------------- Book.from_args
MaxFiles == 2       \* entries of the File field of one metadata record

\* An exception of the loader: its class, which message it carries (kind), the
\* field name and the value the message names, and for the dir_vars message
\* the directory expression and the dir_vars string.
NoLErr == [exc |-> None, kind |-> None, field |-> None, val |-> None,
           input_dir_str |-> <<>>, dir_vars_str |-> <<>>]
Raise(exc, kind, field, val) ==
    [exc |-> exc, kind |-> kind, field |-> field, val |-> val,
     input_dir_str |-> <<>>, dir_vars_str |-> <<>>]

\* JSON values of a Title or SortDisplay field: null, a string (kept in
\* sort), an object with "sort" and "display" (None for a key it lacks), or
\* a list of those.
SdJson(form, sort, display, items) ==
    [form |-> form, sort |-> sort, display |-> display, items |-> items]
JNull == SdJson("null", None, None, <<>>)
JStr(str) == SdJson("str", str, None, <<>>)
JSd(sort, display) == SdJson("dict", sort, display, <<>>)
JList(items) == SdJson("list", None, None, items)
SdElemPool == {JStr("a"), JStr("b"), JSd("a", "b"), JSd(None, "a")}
SdInputsPool ==
    {JNull} \cup SdElemPool
    \cup {JList(l) : l \in UNION {[1..n -> SdElemPool] : n \in 0..MaxVals}}
TitleInputsPool == {JNull, JStr("a"), JSd("a", "b"), JList(<<JStr("b"), JStr("a")>>)}

\* The mutant of in_displays: no display is ever found.
in_displays_never(sds, sd) == FALSE

\* sd.display in displays
in_displays(sds, sd) == \E i \in 1..Len(sds) : sds[i].display = sd.display

\* The mutant of in_sorts: no sort is ever found.
in_sorts_never(sds, sd) == FALSE

\* sd.sort in sorts
in_sorts(sds, sd) == \E i \in 1..Len(sds) : sds[i].sort = sd.sort

\* The mutant of sorted_tuple: the values stay in input order.
sorted_tuple_off(sds) == sds

\* tuple(sorted(sds))
sorted_tuple(sds) == SortSeq(sds, SDLt)

RECURSIVE _get_sortdisplays_loop(_, _, _)
\* The loop of _get_sortdisplays over sd_inputs, and its return.
_get_sortdisplays_loop(sd_inputs, sds, d_type) ==
    IF sd_inputs = <<>> THEN [err |-> NoLErr, sds |-> sorted_tuple(sds)]
    ELSE LET sd_input == Head(sd_inputs)
             matched == \/ sd_input.form = "str"
                        \/ /\ sd_input.form = "dict"
                           /\ sd_input.sort # None
                           /\ sd_input.display # None
             sd == IF sd_input.form = "str"
                     THEN SortDisplay(sd_input.sort, sd_input.sort, None)
                     ELSE SortDisplay(sd_input.sort, sd_input.display, None)
         IN  IF ~matched
               THEN [err |-> Raise(SimpleEbookManagerException, "invalid_sd_input", d_type, None),
                     sds |-> <<>>]
             ELSE IF in_sorts(sds, sd)
               THEN [err |-> Raise(SimpleEbookManagerExit, "duplicate_sort", d_type, sd.sort),
                     sds |-> <<>>]
             ELSE IF in_displays(sds, sd)
               THEN [err |-> Raise(SimpleEbookManagerExit, "duplicate_display", d_type, sd.display),
                     sds |-> <<>>]
             ELSE _get_sortdisplays_loop(Tail(sd_inputs), Append(sds, sd), d_type)

\* _get_sortdisplays: the exception raised, or the tuple returned.
_get_sortdisplays(sd_inputs, d_type) ==
    _get_sortdisplays_loop(
        IF sd_inputs.form = "null" THEN <<>>
        ELSE IF sd_inputs.form \in {"str", "dict"} THEN <<sd_inputs>>
        ELSE sd_inputs.items,
        <<>>, d_type)

\* ---- paths
\* A path is the sequence of its parts, "/" first when it is absolute; a
\* directory expression is a sequence of parts some of which are
\* replacement fields.
MetadataDir == <<"/", "lib", "book">>
\* The replacement fields and the name each refers to.
FieldName == [seg \in {"{root}"} |-> "root"]
DirVar(name, value) == [name |-> name, value |-> value]
\* The parts of the values dir_vars can have.
ValueParts(value) ==
    CASE value = "/r" -> <<"/", "r">>
      [] value = "rel" -> <<"rel">>
      [] OTHER -> <<value>>
\* Book.from_args: tuple(sorted(dir_vars))
DirVarsPool == {<<>>, <<DirVar("root", "/r")>>, <<DirVar("root", "rel"), DirVar("z", "q")>>}
\* "directory" was not given
NoDir == <<None>>
DirExprPool == {<<"{root}", "s">>, <<"/", "abs">>, <<"..">>}

RECURSIVE flatten(_)
flatten(seqs) == IF seqs = <<>> THEN <<>> ELSE Head(seqs) \o flatten(Tail(seqs))

\* Path(str): "." parts and repeated separators go
Path(parts) ==
    IF parts = <<>> THEN <<>>
    ELSE (IF Head(parts) = "." THEN <<>> ELSE <<Head(parts)>>)
         \o SelectSeq(Tail(parts), LAMBDA part : part # "." /\ part # "/")
\* The mutant of is_absolute: no path is taken as absolute.
is_absolute_never(parts) == FALSE

is_absolute(parts) == parts # <<>> /\ parts[1] = "/"

RECURSIVE resolve(_, _)
\* Path.resolve() of an absolute path without symbolic links: ".." goes up
resolve(done, parts) ==
    IF parts = <<>> THEN done
    ELSE IF Head(parts) = ".."
        THEN resolve(IF Len(done) > 1 THEN SubSeq(done, 1, Len(done) - 1) ELSE done, Tail(parts))
    ELSE resolve(Append(done, Head(parts)), Tail(parts))

\* str(dir_var) joined by ", ", or "<none provided>"
dir_vars_str(dvs) ==
    IF dvs = <<>> THEN <<"<none provided>">>
    ELSE [i \in 1..Len(dvs) |-> dvs[i].name \o "=" \o dvs[i].value]

\* The mutant of missing_fields: every replacement field is taken as supplied.
missing_fields_none(input_dir_str, dvs) == {}

\* The names str.format raises KeyError for.
missing_fields(input_dir_str, dvs) ==
    {FieldName[input_dir_str[i]] : i \in {j \in 1..Len(input_dir_str) : input_dir_str[j] \in DOMAIN FieldName}}
    \ {dvs[i].name : i \in 1..Len(dvs)}

\* dict(...)[name]: of two dir_vars with one name the later one stays
value_of(dvs, name) ==
    dvs[CHOOSE i \in 1..Len(dvs) : dvs[i].name = name /\ \A j \in i+1..Len(dvs) : dvs[j].name # name].value

\* BookFile.from_args: the exception raised, or the BookFile returned.
BookFile_from_args(book_title_sort, basename, metadata_dir, dvs, input_dir_str, hash_) ==
    IF missing_fields(input_dir_str, dvs) # {}
      THEN [err |-> [Raise(SimpleEbookManagerExit, "not_enough_dir_vars", None, None)
                        EXCEPT !.input_dir_str = input_dir_str,
                               !.dir_vars_str = dir_vars_str(dvs)],
            file |-> <<>>]
    ELSE LET localized == Path(input_dir_str)
             interpolated_dir ==
                flatten([i \in 1..Len(localized) |->
                    IF localized[i] \in DOMAIN FieldName
                      THEN ValueParts(value_of(dvs, FieldName[localized[i]]))
                      ELSE <<localized[i]>>])
             temp_fn == Path(Append(interpolated_dir, basename))
         IN  [err |-> NoLErr,
              file |-> <<[book_title_sort |-> book_title_sort, basename |-> basename,
                         metadata_dir |-> metadata_dir, dir_vars |-> dvs,
                         input_dir_str |-> input_dir_str, hash |-> hash_,
                         fn |-> IF is_absolute(temp_fn) THEN temp_fn
                                ELSE resolve(<<>>, metadata_dir \o temp_fn)]>>]

\* ---- _get_files
\* JSON values of the File field: an object with "name", "hash" (None when it
\* lacks the key) and "directory" (NoDir when it lacks the key), or a list.
FJson(form, name, hash_, directory, items) ==
    [form |-> form, name |-> name, hash |-> hash_, directory |-> directory, items |-> items]
JFile(name, directory, hash_) == FJson("dict", name, hash_, directory, <<>>)
JFiles(items) == FJson("list", None, None, NoDir, items)
FileElemPool ==
    {JFile("x", NoDir, "md5:0"), JFile("y", <<"{root}", "s">>, "md5:0"),
     JFile("x", <<"/", "abs">>, "md5:0"), JFile("y", <<"..">>, "md5:0"),
     JFile("y", NoDir, None)}
FileInputsPool ==
    FileElemPool \cup {JFiles(l) : l \in UNION {[1..n -> FileElemPool] : n \in 0..MaxFiles}}

RECURSIVE sorted_by_name(_)
\* sorted(f_inputs, key=lambda fd: fd["name"]): stable
sorted_by_name(f_inputs) ==
    IF f_inputs = <<>> THEN <<>>
    ELSE LET init == sorted_by_name(SubSeq(f_inputs, 1, Len(f_inputs) - 1))
             last == f_inputs[Len(f_inputs)]
             before == SelectSeq(init, LAMBDA fd : ~StrLt(last.name, fd.name))
             after == SelectSeq(init, LAMBDA fd : StrLt(last.name, fd.name))
         IN  before \o <<last>> \o after

\* The mutant of files_order: the entries stay in input order.
files_order_off(f_inputs) == f_inputs

files_order(f_inputs) == sorted_by_name(f_inputs)

\* The mutant of in_basenames: no basename is ever found.
in_basenames_never(files, basename) == FALSE

\* basename in basenames
in_basenames(files, basename) == \E i \in 1..Len(files) : files[i].basename = basename

\* The mutant of default_dir: an omitted directory is the parent directory.
default_dir_parent == <<"..">>

\* case {"name": basename, "hash": hash_}: input_dir_str = "."
default_dir == <<".">>

RECURSIVE _get_files_loop(_, _, _, _, _)
\* The loop of _get_files over the sorted f_inputs, and its return.
_get_files_loop(f_inputs, files, book_title_sort, metadata_dir, dvs) ==
    IF f_inputs = <<>> THEN [err |-> NoLErr, files |-> files]
    ELSE LET f_dict == Head(f_inputs)
             input_dir_str == IF f_dict.directory = NoDir THEN default_dir ELSE f_dict.directory
             r == BookFile_from_args(book_title_sort, f_dict.name, metadata_dir, dvs,
                                     input_dir_str, f_dict.hash)
         IN  IF f_dict.hash = None
               THEN [err |-> Raise(SimpleEbookManagerException, "invalid_f_dict", None, f_dict.name),
                     files |-> <<>>]
             ELSE IF in_basenames(files, f_dict.name)
               THEN [err |-> Raise(SimpleEbookManagerExit, "duplicate_file", None, f_dict.name),
                     files |-> <<>>]
             ELSE IF r.err.exc # None
               THEN [err |-> r.err, files |-> <<>>]
             ELSE _get_files_loop(Tail(f_inputs), files \o r.file, book_title_sort, metadata_dir, dvs)

\* _get_files: the exception raised, or the tuple returned.
_get_files(f_inputs, book_title_sort, metadata_dir, dvs) ==
    _get_files_loop(
        files_order(IF f_inputs.form = "dict" THEN <<f_inputs>> ELSE f_inputs.items),
        <<>>, book_title_sort, metadata_dir, dvs)

\* ---- _get_string
\* A text is the sequence of its characters; the banner's pieces are single
\* characters of the model.  NoText is Python None.
NoText == <<None>>
\* A display with a carriage return in it.
CrDisplay == "a\rb"
\* The characters of a string of the model: one character, but for CrDisplay.
characters(str) == IF str = CrDisplay THEN <<"a", "\r", "b">> ELSE <<str>>
_str_title_prefix(display) == <<"# Title: ">> \o characters(display) \o <<"\n", "#", "\n">>
RECURSIVE read_text(_)
\* Path.read_text without newline argument: universal newlines, "\r\n" and
\* "\r" are read as "\n".
read_text(raw) ==
    IF raw = <<>> THEN <<>>
    ELSE IF Head(raw) = "\r"
      THEN <<"\n">> \o read_text(IF Len(raw) >= 2 /\ raw[2] = "\n"
                                   THEN SubSeq(raw, 3, Len(raw)) ELSE Tail(raw))
    ELSE <<Head(raw)>> \o read_text(Tail(raw))
\* str.removeprefix
removeprefix(text, prefix) ==
    IF Len(text) >= Len(prefix) /\ SubSeq(text, 1, Len(prefix)) = prefix
        THEN SubSeq(text, Len(prefix) + 1, Len(text))
        ELSE text

\* The metadata record's entry for a String field: whether the key is there, and its value.
StringInputsPool ==
    {[present |-> FALSE, val |-> NoText], [present |-> TRUE, val |-> NoText],
     [present |-> TRUE, val |-> <<" ", "h">>]}
\* The text file beside the metadata record, for a title shown as display.
StringFnPool(display) ==
    {[is_file |-> FALSE, text |-> <<>>],
     [is_file |-> TRUE, text |-> _str_title_prefix(display) \o <<"h", "\n">>],
     [is_file |-> TRUE, text |-> _str_title_prefix(display) \o <<" ", "h">>],
     [is_file |-> TRUE, text |-> <<"h", "\n">>]}

\* _get_string: the exception raised, or the value returned.
_get_string(entry, item, fn, title_prefix) ==
    IF item.inline
      THEN IF entry.present
             THEN [err |-> NoLErr, val |-> entry.val]
             ELSE [err |-> Raise("KeyError", "KeyError", item.name, None), val |-> NoText]
    ELSE IF entry.present
      THEN [err |-> Raise(SimpleEbookManagerExit, "not_inline_in_metadata", item.name, None),
            val |-> NoText]
    ELSE [err |-> NoLErr,
          val |-> IF fn.is_file THEN removeprefix(read_text(fn.text), title_prefix) ELSE NoText]

\* ---- Book.write_metadata
RECURSIVE split_lines(_)
\* text.split("\n")
split_lines(text) ==
    IF \A i \in 1..Len(text) : text[i] # "\n" THEN <<text>>
    ELSE LET k == Min({i \in 1..Len(text) : text[i] = "\n"})
         IN  <<SubSeq(text, 1, k - 1)>> \o split_lines(SubSeq(text, k + 1, Len(text)))
RECURSIVE lstrip(_, _)
lstrip(text, chars) ==
    IF text # <<>> /\ Head(text) \in chars THEN lstrip(Tail(text), chars) ELSE text
RECURSIVE rstrip(_, _)
rstrip(text, chars) ==
    IF text # <<>> /\ text[Len(text)] \in chars
        THEN rstrip(SubSeq(text, 1, Len(text) - 1), chars) ELSE text
Whitespace == {" ", "\n"}
\* line.strip()
strip(line) == rstrip(lstrip(line, Whitespace), Whitespace)
RECURSIVE join(_)
\* "\n".join(lines)
join(lines) ==
    IF Len(lines) = 1 THEN lines[1] ELSE lines[1] \o <<"\n">> \o join(Tail(lines))
_remove_whitespace(text) ==
    LET lines == split_lines(text) IN join([i \in 1..Len(lines) |-> strip(lines[i])])
\* write_text: text.rstrip("\n") + "\n"
write_text(text) == rstrip(text, {"\n"}) \o <<"\n">>

\* An item of the Schema the book is loaded with.
LItem(cls, name, inline) == [cls |-> cls, name |-> name, inline |-> inline]
LSchema(inline) ==
    <<LItem("title", "title", FALSE), LItem("sortdisplay", "authors", FALSE),
      LItem("file", "files", FALSE), LItem("string", "notes", inline)>>

\* _BookJSONEncoder.default for one schema item: the value of r_val[item.name].
encode_sd(sd) == IF sd.display = sd.sort THEN JStr(sd.display) ELSE JSd(sd.sort, sd.display)
encode_sds(sds) ==
    LET sd_inputs == [i \in 1..Len(sds) |-> encode_sd(sds[i])]
    IN  IF Len(sd_inputs) = 0 THEN JNull
        ELSE IF Len(sd_inputs) = 1 THEN sd_inputs[1]
        ELSE JList(sd_inputs)
encode_files(files) ==
    LET files_val == [i \in 1..Len(files) |->
                        JFile(files[i].basename, files[i].input_dir_str, files[i].hash)]
    IN  IF Len(files_val) = 1 THEN files_val[1] ELSE JFiles(files_val)
\* An inline String is written, any other String has no key in the record.
encode_string(item, val) ==
    IF item.inline THEN [present |-> TRUE, val |-> val] ELSE [present |-> FALSE, val |-> NoText]

\* json.dumps(book, cls=_BookJSONEncoder, schema=schema): the record written.
encode_book(book, schema_) ==
    [name \in {schema_[i].name : i \in 1..Len(schema_)} |->
        LET item == schema_[CHOOSE i \in 1..Len(schema_) : schema_[i].name = name] IN
        CASE item.cls = "title" -> encode_sd(book.title)
          [] item.cls = "sortdisplay" -> encode_sds(book.fields.sortdisplays[name])
          [] item.cls = "file" -> encode_files(book.files)
          [] item.cls = "string" -> encode_string(item, book.fields.strings[name])]

\* The text write_metadata writes for the String item that is not inline,
\* NoText when it writes none.
written_string(book, schema_) ==
    LET item == schema_[CHOOSE i \in 1..Len(schema_) : schema_[i].cls = "string"]
        s_val == book.fields.strings[item.name]
    IN  IF ~item.inline /\ s_val # NoText
          THEN write_text(_str_title_prefix(book.title.display) \o _remove_whitespace(s_val))
          ELSE NoText

NoBook ==
    [title |-> NoTitle, metadata_dir |-> MetadataDir,
     fields |-> [sortdisplays |-> <<>>, strings |-> <<>>], files |-> <<>>]
NoMetadata ==
    [title |-> JNull, authors |-> JNull, files |-> JFiles(<<>>),
     notes |-> [present |-> FALSE, val |-> NoText]]
NoStringFn == [is_file |-> FALSE, text |-> <<>>]

\* What the first load reads is drawn from the pool; the reload reads what is there.
Inputs(pool, name) == IF lrun = 1 THEN pool ELSE {metadata[name]}

\* title = _get_sortdisplays(metadata[schema.title_fieldname], ...)[0]
LoadTitle ==
    /\ lpc = "title"
    /\ \E sd_inputs \in Inputs(TitleInputsPool, "title") :
        LET r == _get_sortdisplays(sd_inputs, "title") IN
        /\ metadata' = [metadata EXCEPT !.title = sd_inputs]
        /\ IF r.err.exc # None
             THEN /\ lerr' = r.err
                  /\ lpc' = "raised"
                  /\ UNCHANGED lbook
           ELSE IF r.sds = <<>>
             THEN /\ lerr' = Raise("IndexError", "IndexError", "title", None)
                  /\ lpc' = "raised"
                  /\ UNCHANGED lbook
           ELSE /\ lbook' = [lbook EXCEPT !.title = r.sds[1]]
                /\ lpc' = "fields"
                /\ UNCHANGED lerr
    /\ UNCHANGED <<lrun, li, lschema, dir_vars, string_fn, lbook1, nvars, svars, cvars, dvars, wvars, vvars, kvars>>

\* The loop over the schema: an item no case matches (the Title).
LoadSkip ==
    /\ lpc = "fields"
    /\ li < Len(lschema)
    /\ lschema[li + 1].cls = "title"
    /\ li' = li + 1
    /\ UNCHANGED <<lpc, lrun, lschema, dir_vars, metadata, string_fn, lbook, lbook1, lerr,
                   nvars, svars, cvars, dvars, wvars, vvars, kvars>>

\* case SchemaItemTypes.SortDisplay()
LoadSortDisplay ==
    /\ lpc = "fields"
    /\ li < Len(lschema)
    /\ lschema[li + 1].cls = "sortdisplay"
    /\ LET item == lschema[li + 1] IN
       \E sd_inputs \in Inputs(SdInputsPool, item.name) :
        LET r == _get_sortdisplays(sd_inputs, item.name) IN
        /\ metadata' = [metadata EXCEPT ![item.name] = sd_inputs]
        /\ IF r.err.exc # None
             THEN /\ lerr' = r.err
                  /\ lpc' = "raised"
                  /\ UNCHANGED <<lbook, li>>
             ELSE /\ lbook' = [lbook EXCEPT !.fields.sortdisplays = (item.name :> r.sds) @@ @]
                  /\ li' = li + 1
                  /\ UNCHANGED <<lerr, lpc>>
    /\ UNCHANGED <<lrun, lschema, dir_vars, string_fn, lbook1, nvars, svars, cvars, dvars, wvars, vvars, kvars>>

\* case SchemaItemTypes.File()
LoadFile ==
    /\ lpc = "fields"
    /\ li < Len(lschema)
    /\ lschema[li + 1].cls = "file"
    /\ LET item == lschema[li + 1] IN
       \E f_inputs \in Inputs(FileInputsPool, item.name) :
        LET r == _get_files(f_inputs, lbook.title.sort, lbook.metadata_dir, dir_vars) IN
        /\ metadata' = [metadata EXCEPT ![item.name] = f_inputs]
        /\ IF r.err.exc # None
             THEN /\ lerr' = r.err
                  /\ lpc' = "raised"
                  /\ UNCHANGED <<lbook, li>>
             ELSE /\ lbook' = [lbook EXCEPT !.files = r.files]
                  /\ li' = li + 1
                  /\ UNCHANGED <<lerr, lpc>>
    /\ UNCHANGED <<lrun, lschema, dir_vars, string_fn, lbook1, nvars, svars, cvars, dvars, wvars, vvars, kvars>>

\* case SchemaItemTypes.String()
LoadString ==
    /\ lpc = "fields"
    /\ li < Len(lschema)
    /\ lschema[li + 1].cls = "string"
    /\ LET item == lschema[li + 1] IN
       \E entry \in Inputs(StringInputsPool, item.name),
          fn \in IF lrun = 1 THEN StringFnPool(lbook.title.display) ELSE {string_fn} :
        LET r == _get_string(entry, item, fn, _str_title_prefix(lbook.title.display)) IN
        /\ metadata' = [metadata EXCEPT ![item.name] = entry]
        /\ string_fn' = fn
        /\ IF r.err.exc # None
             THEN /\ lerr' = r.err
                  /\ lpc' = "raised"
                  /\ UNCHANGED <<lbook, li>>
             ELSE /\ lbook' = [lbook EXCEPT !.fields.strings = (item.name :> r.val) @@ @]
                  /\ li' = li + 1
                  /\ UNCHANGED <<lerr, lpc>>
    /\ UNCHANGED <<lrun, lschema, dir_vars, lbook1, nvars, svars, cvars, dvars, wvars, vvars, kvars>>

\* return cls(title, metadata_dir, fields, files)
LoadReturn ==
    /\ lpc = "fields"
    /\ li = Len(lschema)
    /\ lpc' = "returned"
    /\ lbook1' = IF lrun = 1 THEN lbook ELSE lbook1
    /\ UNCHANGED <<lrun, li, lschema, dir_vars, metadata, string_fn, lbook, lerr, nvars, svars, cvars, dvars, wvars, vvars, kvars>>

\* Book.write_metadata(o_dir = the book's own directory, schema), replace_unicode off
WriteMetadata ==
    /\ lpc = "returned"
    /\ lrun = 1
    /\ metadata' = encode_book(lbook, lschema)
    /\ string_fn' =
        IF written_string(lbook, lschema) # NoText
          THEN [is_file |-> TRUE, text |-> written_string(lbook, lschema)]
          ELSE string_fn
    /\ lpc' = "written"
    /\ UNCHANGED <<lrun, li, lschema, dir_vars, lbook, lbook1, lerr, nvars, svars, cvars, dvars, wvars, vvars, kvars>>

\* Book.from_args called again on the directory just written.
LoadAgain ==
    /\ lpc = "written"
    /\ lrun' = 2
    /\ lpc' = "title"
    /\ li' = 0
    /\ lbook' = NoBook
    /\ UNCHANGED <<lschema, dir_vars, metadata, string_fn, lbook1, lerr, nvars, svars, cvars, dvars, wvars, vvars, kvars>>

LIdle ==
    /\ lpc = "idle"
    /\ lrun = 1
    /\ li = 0
    /\ lschema = LSchema(TRUE)
    /\ dir_vars = <<>>
    /\ metadata = NoMetadata
    /\ string_fn = NoStringFn
    /\ lbook = NoBook
    /\ lbook1 = NoBook
    /\ lerr = NoLErr


LInit ==
    /\ lpc = "title"
    /\ lrun = 1
    /\ li = 0
    /\ lschema \in {LSchema(inline) : inline \in BOOLEAN}
    /\ dir_vars \in DirVarsPool
    /\ metadata = NoMetadata
    /\ string_fn = NoStringFn
    /\ lbook = NoBook
    /\ lbook1 = NoBook
    /\ lerr = NoLErr

\* ---------------------------------------------------------------- csv._write_csvs
_DELIM_comma == ","

_DELIM == ";"

\* The Schema the books of AllMetadata.from_args were read with.
am_schema ==
    <<[cls |-> "title", name |-> "title"]>>
    \o [i \in 1..Len(RefFields) |-> [cls |-> "sortdisplay", name |-> RefFields[i]]]
    \o <<[cls |-> "file", name |-> "files"]>>

RECURSIVE join_str(_, _)
\* delim.join(strs)
join_str(strs, delim) ==
    IF strs = <<>> THEN ""
    ELSE IF Len(strs) = 1 THEN strs[1]
    ELSE strs[1] \o delim \o join_str(Tail(strs), delim)

\* A cell is a text or a formula: "=" and one VLOOKUP, or "=CONCATENATE(...)"
\* of arguments, each a string literal or a VLOOKUP.
Text(str) == [form |-> "text", text |-> str, args |-> <<>>]
Formula(form, args) == [form |-> form, text |-> "", args |-> args]
Lit(str) ==
    [kind |-> "lit", text |-> str, sheetname |-> None, key |-> None, quoted |-> FALSE,
     num_all_rows |-> 0, num_all_cols |-> 0, colname |-> None,
     endcolchr |-> None, endrow |-> 0]
\* ord("A") - 1
_ORD_OFFSET == 64

\* The characters of the code points 65 to 95.
CodePoints ==
    <<"A", "B", "C", "D", "E", "F", "G", "H", "I", "J", "K", "L", "M", "N", "O", "P", "Q",
      "R", "S", "T", "U", "V", "W", "X", "Y", "Z", "[", "\\", "]", "^", "_">>

\* chr(i), for the code points the column counts of the model reach.
chr(i) == CodePoints[i - 64]

\* int(key) does not raise ValueError
is_int(str) == \E i \in 0..(MaxBooks * MaxBooks + NumUUID) : str = ToString(i)
\* VLOOKUP(key, sheetname!A2:sheetname!<column num_all_cols><num_all_rows + 1>,
\*         MATCH("colname", first row of sheetname, 0), FALSE)
\* The range is sheetname!A2:sheetname!<endcolchr><endrow>.
_get_vlookup(sheetname, lookup_key, num_all_rows, num_all_cols, colname) ==
    [kind |-> "vlookup", text |-> "", sheetname |-> sheetname, key |-> lookup_key,
     quoted |-> ~is_int(lookup_key), num_all_rows |-> num_all_rows,
     num_all_cols |-> num_all_cols, colname |-> colname,
     endcolchr |-> chr(num_all_cols + _ORD_OFFSET), endrow |-> num_all_rows + 1]

RECURSIVE separated(_, _)
\* The pieces of sep.join(parts), part by part.
separated(parts, sep) ==
    IF Len(parts) <= 1 THEN chain(parts)
    ELSE parts[1] \o <<sep>> \o separated(Tail(parts), sep)

\* The mutant of _get_csv_output_string: the cell looks up the first item only.
_get_csv_output_string_first(fieldname, items, num_all_rows, colname) ==
    IF Len(items) = 0 THEN Text("")
    ELSE Formula("vlookup", <<_get_vlookup(fieldname, key(items[1]), num_all_rows, 3, colname)>>)

_get_csv_output_string(fieldname, items, num_all_rows, colname) ==
    IF Len(items) = 0 THEN Text("")
    ELSE LET vlookups == [i \in 1..Len(items) |->
                            <<_get_vlookup(fieldname, key(items[i]), num_all_rows, 3, colname)>>]
         IN  IF Len(vlookups) = 1 THEN Formula("vlookup", vlookups[1])
             ELSE Formula("concatenate", separated(vlookups, Lit(_DELIM)))

_get_file_key(book_title_key, basename) == book_title_key \o "|" \o basename

_get_files_str(files, book_title_key, num_all_files, num_file_cols, files_fieldname) ==
    Formula("concatenate",
        separated([i \in 1..Len(files) |->
                    <<Lit(files[i].basename \o "::"),
                      _get_vlookup(files_fieldname, _get_file_key(book_title_key, files[i].basename),
                                   num_all_files, num_file_cols, "file_hash")>>],
                  Lit(_DELIM)))

_get_book_colnames(schema_, split_) ==
    (IF split_ THEN <<"key">> ELSE <<>>) \o <<"metadata_directory">>
    \o chain([i \in 1..Len(schema_) |->
                IF schema_[i].cls \in {"sortdisplay", "title"}
                  THEN <<schema_[i].name \o "_sort", schema_[i].name \o "_display">>
                  ELSE <<schema_[i].name>>])

\* dict(zip(colnames, colvals, strict=True))
dict_zip(colnames, colvals) ==
    [c \in Range(colnames) |->
        colvals[CHOOSE i \in 1..Len(colnames) :
                    colnames[i] = c /\ \A j \in i+1..Len(colnames) : colnames[j] # c]]

\* The cells one schema item adds to the row of book.
book_colvals(am_, book, item, num_file_cols, split_) ==
    CASE item.cls = "file" ->
            <<IF split_
                THEN _get_files_str(book.files, key(book.title), Len(am_.files),
                                    num_file_cols, item.name)
                ELSE Text(join_str([i \in 1..Len(book.files) |->
                            book.files[i].basename \o "::" \o book.files[i].hash], _DELIM))>>
      [] item.cls = "sortdisplay" ->
            LET sortdisplays == book.fields.sortdisplays[item.name] IN
            IF split_
              THEN <<_get_csv_output_string(item.name, sortdisplays,
                        Len(am_.fields[item.name]), item.name \o "_sort"),
                     _get_csv_output_string(item.name, sortdisplays,
                        Len(am_.fields[item.name]), item.name \o "_display")>>
              ELSE <<Text(join_str([i \in 1..Len(sortdisplays) |-> sortdisplays[i].sort], _DELIM)),
                     Text(join_str([i \in 1..Len(sortdisplays) |-> sortdisplays[i].display], _DELIM))>>
      [] item.cls = "title" -> <<Text(book.title.sort), Text(book.title.display)>>

\* _get_book_rows: KeyError when am.fields lacks a SortDisplay item of a
\* split export, else the rows.
_get_book_rows(am_, schema_, colnames, num_file_cols, split_) ==
    IF split_ /\ \E i \in 1..Len(schema_) :
                    schema_[i].cls = "sortdisplay" /\ schema_[i].name \notin DOMAIN am_.fields
      THEN [err |-> "KeyError", rows |-> <<>>]
      ELSE [err |-> None,
            rows |-> [b \in 1..Len(am_.books) |->
                dict_zip(colnames,
                    (IF split_ THEN <<Text(key(am_.books[b].title))>> ELSE <<>>)
                    \o <<Text(ToString(am_.books[b].metadata_dir))>>
                    \o chain([i \in 1..Len(schema_) |->
                         book_colvals(am_, am_.books[b], schema_[i], num_file_cols, split_)]))]]

title_fieldname(schema_) ==
    schema_[Min({i \in 1..Len(schema_) : schema_[i].cls = "title"})].name

_get_file_colnames(schema_) ==
    <<"key", title_fieldname(schema_) \o "_sort", title_fieldname(schema_) \o "_display",
      "file_name", "file_hash", "file_full_path", "metadata_directory", "file_directory",
      "dir_vars">>

\* _get_file_rows; the books of AllMetadata.from_args are read without
\* dir_vars and with every file in the book's own directory.
_get_file_rows(am_, colnames, num_book_cols, books_sheetname) ==
    [f \in 1..Len(am_.files) |->
        LET file == am_.files[f]
            book_title_key ==
                key((CHOOSE b \in Range(am_.books) : b.title.sort = file.book_title_sort).title)
        IN  dict_zip(colnames,
                <<Text(_get_file_key(book_title_key, file.basename)),
                  Formula("vlookup", <<_get_vlookup(books_sheetname, book_title_key,
                                        Len(am_.books), num_book_cols, colnames[2])>>),
                  Formula("vlookup", <<_get_vlookup(books_sheetname, book_title_key,
                                        Len(am_.books), num_book_cols, colnames[3])>>),
                  Text(file.basename),
                  Text(file.hash),
                  Text(ToString(file.metadata_dir) \o "/" \o file.basename),
                  Text(ToString(file.metadata_dir)),
                  Text("."),
                  Text("")>>)]

CsvFile(stem, rows) == [stem |-> stem, rows |-> rows]

RECURSIVE write_sheets(_, _)
\* The loop of _write_csvs over the schema in a split export: the files
\* written, and IndexError from write_csv's rows[0] when a sheet has no rows.
write_sheets(sheets, written) ==
    IF sheets = <<>> THEN [err |-> None, files |-> written]
    ELSE IF Head(sheets).rows = <<>>
        THEN [err |-> "IndexError", files |-> Append(written, Head(sheets))]
    ELSE write_sheets(Tail(sheets), Append(written, Head(sheets)))

\* _write_csvs(output_dir, am, schema, split): the exception raised, and the files written.
_write_csvs(am_, schema_, split_) ==
    LET book_colnames == _get_book_colnames(schema_, split_)
        file_colnames == _get_file_colnames(schema_)
        book_rows == _get_book_rows(am_, schema_, book_colnames, Len(file_colnames), split_)
        sheets == chain([i \in 1..Len(schema_) |->
            CASE schema_[i].cls = "file" ->
                    <<CsvFile(schema_[i].name,
                        _get_file_rows(am_, file_colnames, Len(book_colnames), "books"))>>
              [] schema_[i].cls = "sortdisplay" ->
                    <<CsvFile(schema_[i].name,
                        [k \in 1..Len(am_.fields[schema_[i].name]) |->
                            LET sd == am_.fields[schema_[i].name][k] IN
                            dict_zip(<<"key", schema_[i].name \o "_sort", schema_[i].name \o "_display">>,
                                     <<Text(key(sd)), Text(sd.sort), Text(sd.display)>>)])>>
              [] OTHER -> <<>>])
    IN  IF book_rows.err # None THEN [err |-> book_rows.err, files |-> <<>>]
        ELSE IF ~split_ THEN [err |-> None, files |-> <<CsvFile("books", book_rows.rows)>>]
        ELSE write_sheets(sheets, <<CsvFile("books", book_rows.rows)>>)

\* csv._main: AllMetadata.from_args with KeyType.INT or KeyType.UUID, then _write_csvs.
WriteCsvs ==
    /\ pc = "done"
    /\ run = 1
    /\ key_type # "NONE"
    /\ cpc = "idle"
    /\ \E split_ \in BOOLEAN :
        LET r == _write_csvs(am, am_schema, split_) IN
        /\ split' = split_
        /\ csv_files' = r.files
        /\ cerr' = r.err
        /\ cpc' = IF r.err = None THEN "written" ELSE "raised"
    /\ UNCHANGED <<csv_files1, nvars, svars, lvars, dvars, wvars, vvars, kvars>>

\* The mutant of open_w: the file opened with mode="a".
open_a(existing, rows) == existing \o rows

\* fn.open(mode="w") in write_csv: what the file held is dropped.
open_w(existing, rows) == rows

\* The rows the file named stem holds among files, none when there is no such file.
rows_on_disk(files, stem) ==
    IF \E k \in 1..Len(files) : files[k].stem = stem
      THEN files[CHOOSE k \in 1..Len(files) : files[k].stem = stem].rows
      ELSE <<>>

\* _write_csvs is called again with the same arguments, into the directory
\* the first call wrote.
WriteCsvsAgain ==
    /\ cpc = "written"
    /\ LET r == _write_csvs(am, am_schema, split) IN
        /\ csv_files1' = csv_files
        /\ csv_files' = [k \in 1..Len(r.files) |->
                CsvFile(r.files[k].stem,
                        open_w(rows_on_disk(csv_files, r.files[k].stem), r.files[k].rows))]
        /\ cerr' = r.err
        /\ cpc' = IF r.err = None THEN "written_again" ELSE "raised_again"
    /\ UNCHANGED <<split, nvars, svars, lvars, dvars, wvars, vvars, kvars>>

CIdle ==
    /\ cpc = "idle"
    /\ split = FALSE
    /\ csv_files = <<>>
    /\ cerr = None
    /\ csv_files1 = <<>>

\* ---------------------------------------------------------------- db._create_tables
\* The largest number of items of a schema.
MaxDbItems == 4

\* The schema items a schema is made of: class and name.
DbItem(cls, name) == [cls |-> cls, name |-> name]
DbItemPool ==
    {DbItem("title", "title"), DbItem("file", "files"),
     DbItem("sortdisplay", "authors"), DbItem("sortdisplay", "subjects"),
     DbItem("keyvalue", "ids"), DbItem("date", "date"), DbItem("string", "notes")}

\* The schemas Schema.from_args returns over DbItemPool: the items in the
\* order of the schema file, the title once and the file field once.
DbSchemaPool ==
    {sq \in UNION {[1..n -> DbItemPool] : n \in 2..MaxDbItems} :
        /\ \A i, j \in 1..Len(sq) : i # j => sq[i].name # sq[j].name
        /\ \E i \in 1..Len(sq) : sq[i].cls = "title"
        /\ \E i \in 1..Len(sq) : sq[i].cls = "file"}

\* A CREATE statement: what it creates, under which name, for which field
\* (None for the book table and the summary view), the type of its key
\* columns, and the tables it names in REFERENCES or FROM.
Create(kind, name, field, coltype, refs) ==
    [kind |-> kind, name |-> name, field |-> field, coltype |-> coltype, refs |-> refs]

_coltype(use_uuid_key_) == IF use_uuid_key_ THEN "TEXT" ELSE "INT"

get_create_table_book_sql(use_uuid_key_) ==
    Create("table", "book", None, _coltype(use_uuid_key_), {})

\* The columns of CREATE TABLE book, in the order of the statement.
book_columns(schema_) ==
    <<"pkey", "metadata_directory">>
    \o chain([i \in 1..Len(schema_) |->
        CASE schema_[i].cls \in {"date", "string"} -> <<schema_[i].name>>
          [] schema_[i].cls = "title" ->
                <<schema_[i].name \o "_sort", schema_[i].name \o "_display">>
          [] OTHER -> <<>>])

get_create_table_book_file_sql(fieldname, use_uuid_key_) ==
    Create("table", "book_" \o fieldname, fieldname, _coltype(use_uuid_key_), {"book"})

get_create_view_book_file_sql(fieldname) ==
    Create("view", "v_book_" \o fieldname, fieldname, None, {"book", "book_" \o fieldname})

get_create_table_keyvalue_sql(fieldname, use_uuid_key_) ==
    Create("table", "book_" \o fieldname, fieldname, _coltype(use_uuid_key_), {"book"})

get_create_view_keyvalue_sql(fieldname) ==
    Create("view", "v_book_" \o fieldname, fieldname, None, {"book", "book_" \o fieldname})

get_create_table_sortdisplay_sql(fieldname, use_uuid_key_) ==
    Create("table", fieldname, fieldname, _coltype(use_uuid_key_), {})

get_create_table_sortdisplay_join_sql(fieldname, use_uuid_key_) ==
    Create("table", "book_" \o fieldname, fieldname, _coltype(use_uuid_key_),
           {"book", fieldname})

get_create_view_sortdisplay_sql(fieldname) ==
    Create("view", "v_book_" \o fieldname, fieldname, None,
           {"book", "book_" \o fieldname, fieldname})

\* The tables the common table expression of one schema item reads.
summary_cte_refs(item) ==
    CASE item.cls \in {"file", "keyvalue"} -> {"book", "book_" \o item.name}
      [] item.cls = "sortdisplay" -> {"book", "book_" \o item.name, item.name}
      [] OTHER -> {}

get_create_view_summary_sql(schema_) ==
    Create("view", "v_summary", None, None,
           {"book"} \cup UNION {summary_cte_refs(schema_[i]) : i \in 1..Len(schema_)})

\* The mutant of sortdisplay_statements: the join table before the table of
\* the field.
sortdisplay_statements_join_first(fieldname, use_uuid_key_) ==
    << get_create_table_sortdisplay_join_sql(fieldname, use_uuid_key_),
       get_create_table_sortdisplay_sql(fieldname, use_uuid_key_),
       get_create_view_sortdisplay_sql(fieldname) >>

\* case SchemaItemTypes.SortDisplay(): the three statements, in order.
sortdisplay_statements(fieldname, use_uuid_key_) ==
    << get_create_table_sortdisplay_sql(fieldname, use_uuid_key_),
       get_create_table_sortdisplay_join_sql(fieldname, use_uuid_key_),
       get_create_view_sortdisplay_sql(fieldname) >>

\* conn.execute(sql.get_create_table_book_sql(schema, use_uuid_key))
CreateTableBook ==
    /\ dpc = "start"
    /\ executed' = Append(executed, get_create_table_book_sql(use_uuid_key))
    /\ dpc' = "items"
    /\ UNCHANGED <<dschema, use_uuid_key, di, nvars, svars, lvars, cvars, wvars, vvars, kvars>>

\* case SchemaItemTypes.File()
CreateFile ==
    /\ dpc = "items" /\ di < Len(dschema)
    /\ dschema[di + 1].cls = "file"
    /\ executed' = executed \o
            << get_create_table_book_file_sql(dschema[di + 1].name, use_uuid_key),
               get_create_view_book_file_sql(dschema[di + 1].name) >>
    /\ di' = di + 1
    /\ UNCHANGED <<dpc, dschema, use_uuid_key, nvars, svars, lvars, cvars, wvars, vvars, kvars>>

\* case SchemaItemTypes.KeyValue()
CreateKeyValue ==
    /\ dpc = "items" /\ di < Len(dschema)
    /\ dschema[di + 1].cls = "keyvalue"
    /\ executed' = executed \o
            << get_create_table_keyvalue_sql(dschema[di + 1].name, use_uuid_key),
               get_create_view_keyvalue_sql(dschema[di + 1].name) >>
    /\ di' = di + 1
    /\ UNCHANGED <<dpc, dschema, use_uuid_key, nvars, svars, lvars, cvars, wvars, vvars, kvars>>

\* case SchemaItemTypes.SortDisplay()
CreateSortDisplay ==
    /\ dpc = "items" /\ di < Len(dschema)
    /\ dschema[di + 1].cls = "sortdisplay"
    /\ executed' = executed \o sortdisplay_statements(dschema[di + 1].name, use_uuid_key)
    /\ di' = di + 1
    /\ UNCHANGED <<dpc, dschema, use_uuid_key, nvars, svars, lvars, cvars, wvars, vvars, kvars>>

\* The match statement has no case for Date, String and Title.
CreateNothing ==
    /\ dpc = "items" /\ di < Len(dschema)
    /\ dschema[di + 1].cls \in {"date", "string", "title"}
    /\ di' = di + 1
    /\ UNCHANGED <<dpc, dschema, use_uuid_key, executed, nvars, svars, lvars, cvars, wvars, vvars, kvars>>

\* conn.execute(sql.get_create_view_summary_sql(schema))
CreateViewSummary ==
    /\ dpc = "items" /\ di = Len(dschema)
    /\ executed' = Append(executed, get_create_view_summary_sql(dschema))
    /\ dpc' = "done"
    /\ UNCHANGED <<dschema, use_uuid_key, di, nvars, svars, lvars, cvars, wvars, vvars, kvars>>

DIdle ==
    /\ dpc = "idle"
    /\ dschema = <<>>
    /\ use_uuid_key = FALSE
    /\ di = 0
    /\ executed = <<>>

DInit ==
    /\ dpc = "start"
    /\ dschema \in DbSchemaPool
    /\ use_uuid_key \in BOOLEAN
    /\ di = 0
    /\ executed = <<>>

\* ---------------------------------------------------------------- db._write_db
\* The source sets _BATCH_SIZE = 1000; the model scales it to the size of its
\* collections so that a collection takes more than one batch.
_BATCH_SIZE == 1

\* SQL NULL is None.  A row is a function from column name to value.
\* The constraints of a table: the column sets declared UNIQUE or PRIMARY KEY,
\* the columns declared NOT NULL, and the REFERENCES clauses as
\* <<column, parent table, parent column>>.
book_constraints(schema_) ==
    [unique |-> {{"pkey"}, {"metadata_directory"},
                 {title_fieldname(schema_) \o "_sort"},
                 {title_fieldname(schema_) \o "_display"}},
     notnull |-> {"metadata_directory", title_fieldname(schema_) \o "_sort",
                  title_fieldname(schema_) \o "_display"},
     refs |-> {}]

\* get_create_table_book_file_sql
book_file_constraints ==
    [unique |-> {{"file_name"}, {"file_hash"}, {"file_full_path"},
                 {"book_pkey", "file_name"}},
     notnull |-> {"file_name", "file_hash", "file_full_path", "metadata_directory",
                  "file_directory"},
     refs |-> {<<"book_pkey", "book", "pkey">>}]

sortdisplay_constraints ==
    [unique |-> {{"pkey"}, {"sort"}, {"display"}},
     notnull |-> {"sort", "display"},
     refs |-> {}]

sortdisplay_join_constraints(fieldname) ==
    [unique |-> {{"book_pkey", fieldname \o "_pkey"}},
     notnull |-> {},
     refs |-> {<<"book_pkey", "book", "pkey">>, <<fieldname \o "_pkey", fieldname, "pkey">>}]

\* The database of a connection: the names of the tables and views created
\* and the rows inserted, in insertion order, each with its table, the number
\* of the executemany call that inserted it and the number of its batch.
Database(objects, rows) == [objects |-> objects, rows |-> rows]
NoDatabase == Database({}, <<>>)

\* The rows of one table, in insertion order.
TableRows(rows, table) == SelectSeq(rows, LAMBDA r : r.table = table)

\* The messages of sqlite3.IntegrityError.
NotNullFailed == "IntegrityError: NOT NULL constraint failed"
UniqueFailed == "IntegrityError: UNIQUE constraint failed"
ForeignKeyFailed == "IntegrityError: FOREIGN KEY constraint failed"
IntegrityErrors == {NotNullFailed, UniqueFailed, ForeignKeyFailed}

\* The error SQLite, with foreign_keys=ON, raises for row in table, or None.
violation(rows, table, cons, row) ==
    IF \E c \in cons.notnull : row[c] = None THEN NotNullFailed
    ELSE IF \E u \in cons.unique : \E k \in 1..Len(rows) :
                /\ rows[k].table = table
                /\ \A c \in u : rows[k].row[c] = row[c]
        THEN UniqueFailed
    ELSE IF \E r \in cons.refs :
                /\ row[r[1]] # None
                /\ ~\E k \in 1..Len(rows) :
                        rows[k].table = r[2] /\ rows[k].row[r[3]] = row[r[1]]
        THEN ForeignKeyFailed
    ELSE None

RECURSIVE executemany(_, _, _, _, _, _)
\* conn.executemany(sql, vals): the rows one after another; the first row
\* SQLite refuses raises IntegrityError.
executemany(rows, table, cons, vals, call, batch) ==
    IF vals = <<>> THEN [err |-> None, rows |-> rows]
    ELSE IF violation(rows, table, cons, Head(vals)) # None
        THEN [err |-> violation(rows, table, cons, Head(vals)), rows |-> rows]
    ELSE executemany(Append(rows, [table |-> table, row |-> Head(vals),
                                   call |-> call, batch |-> batch]),
                     table, cons, Tail(vals), call, batch)

\* The statements _create_tables executes for a schema, in order.
_create_tables(schema_, use_uuid_key_) ==
    <<get_create_table_book_sql(use_uuid_key_)>>
    \o chain([i \in 1..Len(schema_) |->
        CASE schema_[i].cls = "file" ->
                << get_create_table_book_file_sql(schema_[i].name, use_uuid_key_),
                   get_create_view_book_file_sql(schema_[i].name) >>
          [] schema_[i].cls = "keyvalue" ->
                << get_create_table_keyvalue_sql(schema_[i].name, use_uuid_key_),
                   get_create_view_keyvalue_sql(schema_[i].name) >>
          [] schema_[i].cls = "sortdisplay" ->
                sortdisplay_statements(schema_[i].name, use_uuid_key_)
          [] OTHER -> <<>>])
    \o <<get_create_view_summary_sql(schema_)>>

\* The schema items of one class, in schema order.
items_of(schema_, classes) == SelectSeq(schema_, LAMBDA item : item.cls \in classes)

RECURSIVE _insert_sortdisplays(_, _, _, _)
\* _insert_sortdisplays for the sortdisplay items not yet handled: one
\* executemany per item, over am.fields[item.name].
_insert_sortdisplays(am_, items, rows, call) ==
    IF items = <<>> THEN [err |-> None, rows |-> rows, call |-> call]
    ELSE IF Head(items).name \notin DOMAIN am_.fields
        THEN [err |-> "KeyError", rows |-> rows, call |-> call]
    ELSE LET sds == am_.fields[Head(items).name]
             r == executemany(rows, Head(items).name, sortdisplay_constraints,
                    [k \in 1..Len(sds) |->
                        [pkey |-> key(sds[k]), sort |-> sds[k].sort,
                         display |-> sds[k].display]],
                    call + 1, 0)
         IN  IF r.err # None THEN [err |-> r.err, rows |-> r.rows, call |-> call + 1]
             ELSE _insert_sortdisplays(am_, Tail(items), r.rows, call + 1)

\* str(file.fn) of a file kept in the directory of its metadata.
file_full_path(file) == ToString(file.metadata_dir) \o "/" \o file.basename

\* _get_book_insert_vals: book_inserts.
book_inserts(book, schema_) ==
    ("pkey" :> key(book.title))
    @@ ("metadata_directory" :> ToString(book.metadata_dir))
    @@ (title_fieldname(schema_) \o "_sort" :> book.title.sort)
    @@ (title_fieldname(schema_) \o "_display" :> book.title.display)

\* _get_book_insert_vals: post_book_inserts[sql_] for a file or sortdisplay
\* item (the schemas of the model declare no other class that owns rows).
post_book_inserts(book, item) ==
    IF item.cls = "file"
      THEN [k \in 1..Len(book.files) |->
                [book_pkey |-> key(book.title),
                 file_name |-> book.files[k].basename,
                 file_hash |-> book.files[k].hash,
                 file_full_path |-> file_full_path(book.files[k]),
                 metadata_directory |-> ToString(book.files[k].metadata_dir),
                 file_directory |-> ".",
                 dir_vars |-> ""]]
      ELSE [k \in 1..Len(book.fields.sortdisplays[item.name]) |->
                ("book_pkey" :> key(book.title))
                @@ (item.name \o "_pkey" :> key(book.fields.sortdisplays[item.name][k]))]

post_constraints(item) ==
    IF item.cls = "file" THEN book_file_constraints
    ELSE sortdisplay_join_constraints(item.name)

RECURSIVE post_executemany(_, _, _, _, _)
\* The loop over post_book_inserts.items(): one executemany per statement, in
\* the order the statements entered the dict, which is schema order.
post_executemany(bks, items, rows, call, batch) ==
    IF items = <<>> THEN [err |-> None, rows |-> rows, call |-> call]
    ELSE LET r == executemany(rows, "book_" \o Head(items).name, post_constraints(Head(items)),
                    chain([b \in 1..Len(bks) |-> post_book_inserts(bks[b], Head(items))]),
                    call + 1, batch)
         IN  IF r.err # None THEN [err |-> r.err, rows |-> r.rows, call |-> call + 1]
             ELSE post_executemany(bks, Tail(items), r.rows, call + 1, batch)

\* am.books[start:end]
batch_books(am_, start, end) ==
    SubSeq(am_.books, start + 1, IF end < Len(am_.books) THEN end ELSE Len(am_.books))

\* The mutant of _insert_books_batch: the rows of the books last.
_insert_books_batch_books_last(am_, schema_, start, end, rows, call) ==
    LET bks == batch_books(am_, start, end)
        batch == (start \div _BATCH_SIZE) + 1
        p == post_executemany(bks, items_of(schema_, {"file", "sortdisplay"}),
                              rows, call, batch)
        r == executemany(p.rows, "book", book_constraints(schema_),
                    [b \in 1..Len(bks) |-> book_inserts(bks[b], schema_)], p.call + 1, batch)
    IN  IF p.err # None THEN p
        ELSE [err |-> r.err, rows |-> r.rows, call |-> p.call + 1]

\* _insert_books_batch: the rows of the books, then the rows that refer to them.
_insert_books_batch(am_, schema_, start, end, rows, call) ==
    LET bks == batch_books(am_, start, end)
        batch == (start \div _BATCH_SIZE) + 1
        r == executemany(rows, "book", book_constraints(schema_),
                    [b \in 1..Len(bks) |-> book_inserts(bks[b], schema_)], call + 1, batch)
    IN  IF r.err # None THEN [err |-> r.err, rows |-> r.rows, call |-> call + 1]
        ELSE post_executemany(bks, items_of(schema_, {"file", "sortdisplay"}),
                              r.rows, call + 1, batch)

\* ---- v_summary
\* A value to aggregate: its text, and the string that orders it.
Value(ord, text) == [ord |-> ord, text |-> text]

\* The mutant of window_order: group_concat without ORDER BY, the rows as
\* they come from the table.
window_order_off(vals) == vals

\* OVER (PARTITION BY book_pkey ORDER BY <the aggregated value> ROWS BETWEEN
\* UNBOUNDED PRECEDING AND UNBOUNDED FOLLOWING): the rows of the partition in
\* ascending order of the value.
window_order(vals) == SortSeq(vals, LAMBDA x, y : StrLt(x.ord, y.ord))

\* LEFT OUTER JOIN <field>_concat: group_concat(value, ';') over the ordered
\* partition, NULL for a book without a row in the common table expression.
group_concat(vals) ==
    IF vals = <<>> THEN None
    ELSE join_str([k \in 1..Len(vals) |-> window_order(vals)[k].text], ";")

\* The values _get_create_view_summary_other_cte_sql combines for one book:
\* col1 || delim || col2 of the rows of book_<field> that join the book row.
\* Their order is the order of the strings, which col1 decides for the
\* names of the model: no name is the beginning of another.
combined_rows(rows, fieldname, book_pkey_, col1, col2, delim) ==
    LET joined == SelectSeq(TableRows(rows, "book_" \o fieldname),
                            LAMBDA r : r.row.book_pkey = book_pkey_)
    IN  [k \in 1..Len(joined) |->
            Value(joined[k].row[col1],
                  joined[k].row[col1] \o delim \o joined[k].row[col2])]

\* The rows _get_create_view_summary_sortdisplay_cte_sql joins for one book:
\* book, book_<field> and <field> on the two keys; col is sort or display.
sortdisplay_rows(rows, fieldname, book_pkey_, col) ==
    LET joined == SelectSeq(TableRows(rows, "book_" \o fieldname),
                            LAMBDA r : r.row.book_pkey = book_pkey_)
        entity(pkey_) == SelectSeq(TableRows(rows, fieldname),
                                   LAMBDA r : r.row.pkey = pkey_)
    IN  chain([k \in 1..Len(joined) |->
            [e \in 1..Len(entity(joined[k].row[fieldname \o "_pkey"])) |->
                LET v == entity(joined[k].row[fieldname \o "_pkey"])[e].row[col]
                IN  Value(v, v)]])

\* The columns of v_summary, in the order of the SELECT.
summary_colnames(schema_) ==
    <<"book_pkey", "metadata_directory">>
    \o chain([i \in 1..Len(schema_) |->
        IF schema_[i].cls \in {"sortdisplay", "title"}
          THEN <<schema_[i].name \o "_sort", schema_[i].name \o "_display">>
          ELSE <<schema_[i].name>>])

summary_colvals(rows, schema_, book_row) ==
    <<book_row.pkey, book_row.metadata_directory>>
    \o chain([i \in 1..Len(schema_) |->
        CASE schema_[i].cls = "title" ->
                <<book_row[schema_[i].name \o "_sort"], book_row[schema_[i].name \o "_display"]>>
          [] schema_[i].cls = "sortdisplay" ->
                <<group_concat(sortdisplay_rows(rows, schema_[i].name, book_row.pkey, "sort")),
                  group_concat(sortdisplay_rows(rows, schema_[i].name, book_row.pkey,
                                                "display"))>>
          [] schema_[i].cls = "file" ->
                <<group_concat(combined_rows(rows, schema_[i].name, book_row.pkey,
                                             "file_name", "file_hash", "::"))>>
          [] OTHER -> <<book_row[schema_[i].name]>>])

\* SELECT * FROM v_summary: one row per group of book.<title>_sort, in
\* ascending order of it.
v_summary(rows, schema_) ==
    LET t_sort == title_fieldname(schema_) \o "_sort"
        book_rows == SortSeq(TableRows(rows, "book"),
                             LAMBDA x, y : StrLt(x.row[t_sort], y.row[t_sort]))
    IN  [b \in 1..Len(book_rows) |->
            dict_zip(summary_colnames(schema_),
                     summary_colvals(rows, schema_, book_rows[b].row))]

\* An exception leaves the with block: the transaction is rolled back, the
\* connection closed, and the exception ends _write_db.
WriteDbRaise(e) ==
    /\ werr' = e
    /\ wpc' = "raised"
    /\ conn' = [conn EXCEPT !.rows = <<>>]

\* The mutant of unlink: the existing database file is kept.
unlink_off(exists, database) == database

\* if db_fn.is_file(): db_fn.unlink(); connect(db_fn) opens what is left.
unlink(exists, database) == IF exists THEN NoDatabase ELSE database

\* _write_db up to connect(db_fn), called by _main after from_args returned.
WriteDbConnect ==
    /\ pc = "done" /\ run = 1 /\ key_type # "NONE"
    /\ wpc = "idle"
    /\ conn' = unlink(db_fn, conn)
    /\ db_fn' = TRUE
    /\ wpc' = "create_tables"
    /\ UNCHANGED <<wrun, conn1, wstart, wcall, werr, user_sql_fn, committed, script_ran,
                   nvars, svars, lvars, cvars, dvars, vvars, kvars>>

\* _create_tables(conn, schema, use_uuid_key): CREATE of a name that exists
\* raises sqlite3.OperationalError.
WriteDbCreateTables ==
    /\ wpc = "create_tables"
    /\ LET stmts == _create_tables(am_schema, key_type = "UUID")
           names == {stmts[k].name : k \in 1..Len(stmts)}
       IN  IF names \cap conn.objects # {}
             THEN /\ WriteDbRaise("OperationalError")
                  /\ UNCHANGED <<wstart, wcall>>
             ELSE /\ conn' = [conn EXCEPT !.objects = names]
                  /\ wpc' = "insert_sortdisplays"
                  /\ UNCHANGED <<wstart, wcall, werr>>
    /\ UNCHANGED <<wrun, db_fn, conn1, user_sql_fn, committed, script_ran,
                   nvars, svars, lvars, cvars, dvars, vvars, kvars>>

\* _insert_sortdisplays(conn, am, schema)
InsertSortDisplays ==
    /\ wpc = "insert_sortdisplays"
    /\ LET r == _insert_sortdisplays(am, items_of(am_schema, {"sortdisplay"}), conn.rows, wcall)
       IN  IF r.err # None
             THEN /\ WriteDbRaise(r.err)
                  /\ UNCHANGED <<wstart, wcall>>
             ELSE /\ conn' = [conn EXCEPT !.rows = r.rows]
                  /\ wcall' = r.call
                  /\ wstart' = 0
                  /\ wpc' = "batches"
                  /\ UNCHANGED werr
    /\ UNCHANGED <<wrun, db_fn, conn1, user_sql_fn, committed, script_ran,
                   nvars, svars, lvars, cvars, dvars, vvars, kvars>>

\* One iteration of for start in range(0, len(am.books), _BATCH_SIZE).
InsertBooksBatch ==
    /\ wpc = "batches"
    /\ wstart < Len(am.books)
    /\ LET r == _insert_books_batch(am, am_schema, wstart, wstart + _BATCH_SIZE,
                                    conn.rows, wcall)
       IN  IF r.err # None
             THEN /\ WriteDbRaise(r.err)
                  /\ UNCHANGED <<wstart, wcall>>
             ELSE /\ conn' = [conn EXCEPT !.rows = r.rows]
                  /\ wcall' = r.call
                  /\ wstart' = wstart + _BATCH_SIZE
                  /\ UNCHANGED <<wpc, werr>>
    /\ UNCHANGED <<wrun, db_fn, conn1, user_sql_fn, committed, script_ran,
                   nvars, svars, lvars, cvars, dvars, vvars, kvars>>

\* The loop is over and the with block commits.  user_sql_fn is read here
\* for the first time: the first call draws it here.
WriteDbCommit ==
    /\ wpc = "batches"
    /\ wstart >= Len(am.books)
    /\ committed' = TRUE
    /\ \E u \in (IF wrun = 1 THEN BOOLEAN ELSE {user_sql_fn}) :
        /\ user_sql_fn' = u
        /\ wpc' = IF u THEN "user_sql" ELSE "done"
    /\ UNCHANGED <<wrun, db_fn, conn, conn1, wstart, wcall, werr, script_ran,
                   nvars, svars, lvars, cvars, dvars, vvars, kvars>>

\* conn.executescript(read_text(user_sql_fn).strip()); the script of the
\* model reads and changes nothing.
RunUserSql ==
    /\ wpc = "user_sql"
    /\ script_ran' = TRUE
    /\ wpc' = "done"
    /\ UNCHANGED <<wrun, db_fn, conn, conn1, wstart, wcall, werr, user_sql_fn, committed,
                   nvars, svars, lvars, cvars, dvars, vvars, kvars>>

\* _write_db is called again with the same arguments.
WriteDbAgain ==
    /\ wpc = "done" /\ wrun = 1
    /\ wrun' = 2
    /\ conn1' = conn
    /\ wpc' = "create_tables"
    /\ conn' = unlink(db_fn, conn)
    /\ wstart' = 0 /\ wcall' = 0
    /\ committed' = FALSE /\ script_ran' = FALSE
    /\ UNCHANGED <<db_fn, werr, user_sql_fn, nvars, svars, lvars, cvars, dvars, vvars, kvars>>

WIdle ==
    /\ wpc = "idle"
    /\ wrun = 1
    /\ db_fn = FALSE
    /\ conn = NoDatabase
    /\ conn1 = NoDatabase
    /\ wstart = 0 /\ wcall = 0
    /\ werr = None
    /\ user_sql_fn = FALSE
    /\ committed = FALSE
    /\ script_ran = FALSE

\* ---------------------------------------------------------------- csv._get_vlookup
\* The largest number of sortdisplay fields of a schema.
MaxRefFields == 13

\* The schemas Schema.from_args returns for a title, n sortdisplay fields
\* and a file field.
WideSchema(n) ==
    <<[cls |-> "title", name |-> "title"]>>
    \o [i \in 1..n |-> [cls |-> "sortdisplay", name |-> "f" \o ToString(i)]]
    \o <<[cls |-> "file", name |-> "files"]>>

NoVlookup == Lit(None)

\* _get_file_rows: the lookup of a file row into the sheet of the books,
\* with num_book_cols = len(book_colnames) as _write_csvs passes it.
FileRowLookup ==
    /\ vpc = "start"
    /\ \E c \in {2, 3} :
        vlookup' = _get_vlookup("books", vkey, vnum_rows,
                                Len(_get_book_colnames(vschema, TRUE)),
                                _get_file_colnames(vschema)[c])
    /\ vpc' = "done"
    /\ UNCHANGED <<vschema, vnum_rows, vkey, nvars, svars, lvars, cvars, dvars, wvars, kvars>>

\* _get_csv_output_string: the lookup of a book row into the sheet of a
\* sortdisplay field, which has the columns key, _sort and _display.
FieldLookup ==
    /\ vpc = "start"
    /\ \E i \in 1..Len(vschema) :
        /\ vschema[i].cls = "sortdisplay"
        /\ \E c \in {"_sort", "_display"} :
            vlookup' = _get_vlookup(vschema[i].name, vkey, vnum_rows, 3, vschema[i].name \o c)
    /\ vpc' = "done"
    /\ UNCHANGED <<vschema, vnum_rows, vkey, nvars, svars, lvars, cvars, dvars, wvars, kvars>>

\* _get_files_str: the lookup of a book row into the sheet of the files,
\* with num_file_cols = len(file_colnames).
FileHashLookup ==
    /\ vpc = "start"
    /\ vlookup' = _get_vlookup("files", _get_file_key(vkey, "x"), vnum_rows,
                               Len(_get_file_colnames(vschema)), "file_hash")
    /\ vpc' = "done"
    /\ UNCHANGED <<vschema, vnum_rows, vkey, nvars, svars, lvars, cvars, dvars, wvars, kvars>>

VIdle ==
    /\ vpc = "idle"
    /\ vschema = <<>>
    /\ vnum_rows = 0
    /\ vkey = None
    /\ vlookup = NoVlookup

VInit ==
    /\ vpc = "start"
    /\ vschema \in {WideSchema(n) : n \in 0..MaxRefFields}
    /\ vnum_rows \in 1..MaxBooks
    /\ vkey \in {"1", "2", "u1"}
    /\ vlookup = NoVlookup


\* ---------------------------------------------------------------- clean._clean
\* The largest number of book directories of the library.
MaxCleanBooks == 2

\* The schema of the library: the String field is kept in a text file.
CleanSchema == LSchema(FALSE)

\* The directory of the i-th book of the library.
CleanDir(i) == <<"/", "lib", "b" \o ToString(i)>>

\* _get_file_hash: the name of the algorithm and the digest of the bytes at
\* input_fn; files at different paths hold different bytes.
_get_file_hash(input_fn, algo) == algo \o ":" \o join_str(input_fn, "/")

\* A metadata file: the JSON value in it, and whether its text is laid out
\* as write_json lays it out (indent 4, sorted keys, one final newline).
JsonFile(value, layout) == [value |-> value, layout |-> layout]

\* A book directory: metadata.json and notes.txt.
BookDir(metadata_fn, notes_fn) == [metadata |-> metadata_fn, string_fn |-> notes_fn]

\* The File values of the i-th book: hashes that match the bytes of the
\* file, that are stale, and that belong to the other file.
CleanFilesPool(i) ==
    LET own(name) == _get_file_hash(CleanDir(i) \o <<name>>, "md5") IN
    {JFile("x", default_dir, own("x")),
     JFile("x", NoDir, "md5:0"),
     JFiles(<<JFile("x", default_dir, own("y")), JFile("y", default_dir, own("x"))>>),
     JFiles(<<JFile("y", default_dir, own("y")), JFile("x", <<"/", "abs">>, "md5:0")>>)}

\* The book directories the library can hold in place i; the titles are in
\* the order AllMetadata.from_args sorts the books into.
BookDirPool(i) ==
    {BookDir(JsonFile([title |-> t, authors |-> a, files |-> f,
                       notes |-> [present |-> FALSE, val |-> NoText]], layout),
             CASE fn = "none" -> [is_file |-> FALSE, text |-> <<>>]
               [] fn = "banner" ->
                    [is_file |-> TRUE,
                     text |-> _str_title_prefix(IF t.form = "dict" THEN t.display ELSE t.sort)
                              \o <<"h", "\n">>]
               [] fn = "plain" -> [is_file |-> TRUE, text |-> <<" ", "h">>]) :
        t \in (IF i = 1 THEN {JStr("a"), JSd("a", CrDisplay)} ELSE {JStr("b")}),
        a \in (IF i = 1 THEN {JNull, JList(<<JStr("b"), JStr("a")>>)} ELSE {JNull}),
        f \in (IF i = 1 THEN CleanFilesPool(i)
               ELSE {JFile("x", default_dir, "md5:0"), JFile("x", <<"/", "abs">>, "md5:0")}),
        layout \in (IF i = 1 THEN {"write_json", "other"} ELSE {"write_json"}),
        fn \in {"none", "banner", "plain"}}

\* Book.from_args under CleanSchema: the exception raised, or the Book.
Book_from_args(metadata_dir, dir_, schema_, dvs) ==
    LET md == dir_.metadata.value
        t == _get_sortdisplays(md.title, "title")
        a == _get_sortdisplays(md.authors, "authors")
        f == _get_files(md.files, t.sds[1].sort, metadata_dir, dvs)
        s == _get_string(md.notes, schema_[4], dir_.string_fn,
                         _str_title_prefix(t.sds[1].display))
    IN  IF t.err.exc # None THEN [err |-> t.err, book |-> NoBook]
        ELSE IF t.sds = <<>>
          THEN [err |-> Raise("IndexError", "IndexError", "title", None), book |-> NoBook]
        ELSE IF a.err.exc # None THEN [err |-> a.err, book |-> NoBook]
        ELSE IF f.err.exc # None THEN [err |-> f.err, book |-> NoBook]
        ELSE IF s.err.exc # None THEN [err |-> s.err, book |-> NoBook]
        ELSE [err |-> NoLErr,
              book |-> [title |-> t.sds[1], metadata_dir |-> metadata_dir,
                        fields |-> [sortdisplays |-> ("authors" :> a.sds),
                                    strings |-> ("notes" :> s.val)],
                        files |-> f.files]]

\* The mutant of starmap: the results in the order the workers finished.
imap_unordered(res, order) == [i \in 1..Len(order) |-> res[order[i]]]

\* Pool.starmap: the results in the order of the tasks.
starmap(res, order) == res

\* dict(zip(inputs, hashes, strict=True)): a later pair replaces an earlier one.
dict_zip_paths(paths, vals) ==
    [fn \in Range(paths) |->
        vals[CHOOSE i \in 1..Len(paths) :
                paths[i] = fn /\ \A j \in i+1..Len(paths) : paths[j] # fn]]

\* The loop of _clean over book.files: file.hash = hashes[file.fn].
update_hashes(book, algo, hashes_) ==
    IF algo = None THEN book
    ELSE [book EXCEPT !.files =
            [j \in 1..Len(book.files) |->
                [book.files[j] EXCEPT !.hash = hashes_[book.files[j].fn]]]]

\* Book.write_metadata(t_dir, schema): the files written, by name.
write_metadata(book, schema_) ==
    <<[name |-> "metadata.json",
       content |-> JsonFile(encode_book(book, schema_), "write_json")]>>
    \o (IF written_string(book, schema_) # NoText
          THEN <<[name |-> "notes.txt", content |-> written_string(book, schema_)]>>
          ELSE <<>>)

\* The bytes of the file named name in the book directory.
orig_content(dir_, name) ==
    IF name = "metadata.json" THEN dir_.metadata ELSE dir_.string_fn.text

\* filecmp.cmp(fn, orig_fn, shallow=False)
cmp(output, dir_) == output.content = orig_content(dir_, output.name)

\* shutil.move(fn, orig_fn)
move(output, dir_) ==
    IF output.name = "metadata.json" THEN [dir_ EXCEPT !.metadata = output.content]
    ELSE [dir_ EXCEPT !.string_fn = [is_file |-> TRUE, text |-> output.content]]

RECURSIVE _update_files_if_changed(_, _)
\* _update_files_if_changed: the directory it leaves and the files it moved.
_update_files_if_changed(dir_, output_fns) ==
    IF output_fns = <<>> THEN [dir |-> dir_, moved |-> <<>>]
    ELSE LET fn == Head(output_fns)
             changed == ~cmp(fn, dir_)
             rest == _update_files_if_changed(IF changed THEN move(fn, dir_) ELSE dir_,
                                              Tail(output_fns))
         IN  [dir |-> rest.dir,
              moved |-> (IF changed THEN <<fn.name>> ELSE <<>>) \o rest.moved]

\* _main: AllMetadata.from_args(library_dirs, dir_vars, schema), then the
\* start of _clean: with an algorithm the paths go to the Pool.
CleanStart ==
    /\ kpc = "start"
    /\ LET loaded == [i \in 1..Len(library) |->
                        Book_from_args(CleanDir(i), library[i], CleanSchema, <<>>)]
           bks == [i \in 1..Len(library) |-> loaded[i].book]
       IN  IF \E i \in 1..Len(library) : loaded[i].err.exc # None
             THEN /\ kpc' = "raised"
                  /\ UNCHANGED <<kam, inputs, results>>
             ELSE /\ kam' = bks
                  /\ inputs' = IF kalgo = None THEN <<>>
                               ELSE [j \in 1..Len(am_files(bks)) |-> am_files(bks)[j].fn]
                  /\ results' = IF kalgo = None THEN <<>>
                                ELSE [j \in 1..Len(am_files(bks)) |-> None]
                  /\ kpc' = IF kalgo = None THEN "books" ELSE "pool"
    /\ UNCHANGED <<krun, library, lib_before, kalgo, finished, hashes, ki, changes_found,
                   replaced, kmsg, nvars, svars, lvars, cvars, dvars, wvars, vvars>>

\* A worker of the Pool returns the hash of one task; the workers finish in
\* any order.
WorkerFinish ==
    /\ kpc = "pool"
    /\ \E t \in 1..Len(inputs) :
        /\ \A j \in 1..Len(finished) : finished[j] # t
        /\ results' = [results EXCEPT ![t] = _get_file_hash(inputs[t], kalgo)]
        /\ finished' = Append(finished, t)
    /\ UNCHANGED <<kpc, krun, library, lib_before, kam, kalgo, inputs, hashes, ki,
                   changes_found, replaced, kmsg, nvars, svars, lvars, cvars, dvars, wvars,
                   vvars>>

\* get_file_hashes returns: hashes = dict(get_file_hashes(...))
GetFileHashesReturn ==
    /\ kpc = "pool"
    /\ Len(finished) = Len(inputs)
    /\ hashes' = dict_zip_paths(inputs, starmap(results, finished))
    /\ kpc' = "books"
    /\ UNCHANGED <<krun, library, lib_before, kam, kalgo, inputs, results, finished, ki,
                   changes_found, replaced, kmsg, nvars, svars, lvars, cvars, dvars, wvars,
                   vvars>>

\* One turn of the loop of _clean over am.books.
CleanBook ==
    /\ kpc = "books"
    /\ ki < Len(kam)
    /\ LET book == update_hashes(kam[ki + 1], kalgo, hashes)
           fns == write_metadata(book, CleanSchema)
           r == _update_files_if_changed(library[ki + 1], fns)
       IN  /\ kam' = [kam EXCEPT ![ki + 1] = book]
           /\ library' = [library EXCEPT ![ki + 1] = r.dir]
           /\ replaced' = replaced \o [j \in 1..Len(r.moved) |-> <<ki + 1, r.moved[j]>>]
           /\ changes_found' = ((r.moved # <<>>) \/ changes_found)
    /\ ki' = ki + 1
    /\ UNCHANGED <<kpc, krun, lib_before, kalgo, inputs, results, finished, hashes, kmsg,
                   nvars, svars, lvars, cvars, dvars, wvars, vvars>>

\* The end of _clean: the last message.
CleanFinish ==
    /\ kpc = "books"
    /\ ki = Len(kam)
    /\ kmsg' = IF changes_found THEN "Finished processing, changes made!"
               ELSE "Finished processing, no changes needed."
    /\ kpc' = "finished"
    /\ UNCHANGED <<krun, library, lib_before, kam, kalgo, inputs, results, finished, hashes,
                   ki, changes_found, replaced, nvars, svars, lvars, cvars, dvars, wvars,
                   vvars>>

\* clean is run again, with the same options, on the library it left.
CleanAgain ==
    /\ kpc = "finished"
    /\ krun = 1
    /\ krun' = 2
    /\ kpc' = "start"
    /\ lib_before' = library
    /\ kam' = <<>>
    /\ inputs' = <<>>
    /\ results' = <<>>
    /\ finished' = <<>>
    /\ hashes' = <<>>
    /\ ki' = 0
    /\ changes_found' = FALSE
    /\ replaced' = <<>>
    /\ kmsg' = None
    /\ UNCHANGED <<library, kalgo, nvars, svars, lvars, cvars, dvars, wvars, vvars>>

KInit ==
    /\ kpc = "start"
    /\ krun = 1
    /\ \E n \in 1..MaxCleanBooks :
        library \in {l \in [1..n -> UNION {BookDirPool(i) : i \in 1..n}] :
                        \A i \in 1..n : l[i] \in BookDirPool(i)}
    /\ lib_before = library
    /\ kam = <<>>
    /\ kalgo \in {None, "md5"}
    /\ inputs = <<>>
    /\ results = <<>>
    /\ finished = <<>>
    /\ hashes = <<>>
    /\ ki = 0
    /\ changes_found = FALSE
    /\ replaced = <<>>
    /\ kmsg = None

KIdle ==
    /\ kpc = "idle"
    /\ krun = 0
    /\ library = <<>>
    /\ lib_before = <<>>
    /\ kam = <<>>
    /\ kalgo = None
    /\ inputs = <<>>
    /\ results = <<>>
    /\ finished = <<>>
    /\ hashes = <<>>
    /\ ki = 0
    /\ changes_found = FALSE
    /\ replaced = <<>>
    /\ kmsg = None

XIdle == LIdle /\ CIdle /\ DIdle /\ WIdle /\ VIdle /\ KIdle

\* ---------------------------------------------------------------- Schema.from_args
MaxItems == 3       \* items of one schema_dict

\* _SCHEMA_TYPE_MAPPING: the lower-cased class names of SchemaItemTypes.
_SCHEMA_TYPE_MAPPING == {"date", "file", "keyvalue", "sortdisplay", "string", "title"}
\* The fields each class declares besides name.
ItemFields(cls) ==
    CASE cls = "date" -> {"input_format", "output_format"}
      [] cls = "keyvalue" -> {"key_label", "value_label"}
      [] cls = "string" -> {"inline"}
      [] OTHER -> {}

\* (get_csv_fn(None).stem,)
_NAMES_RESERVED == {"books"}
_TYPES_REQUIRED == <<"file", "title">>
_TYPES_NO_DUPLICATES == <<"file", "title">>

\* str.lower() on the strings of the model.
lower(str) ==
    CASE str = "Title" -> "title"
      [] str = "Books" -> "books"
      [] str = "File" -> "file"
      [] OTHER -> str

\* A value of schema_dict: a string, a dict (its "type" or None when it has
\* none, the names of its other keys, and the value of its "name" key or
\* None), or any other JSON value.
TypeRaw(form, type, kw, name) == [form |-> form, type |-> type, kw |-> kw, name |-> name]
TypeRawPool ==
    {TypeRaw("str", t, {}, None) : t \in {"title", "File", "sortdisplay", "string", "bogus"}}
    \cup {TypeRaw("dict", "string", {"inline"}, None),
          TypeRaw("dict", None, {"inline"}, None),
          TypeRaw("dict", "title", {"name"}, "books"),
          TypeRaw("other", None, {}, None)}
SchemaKeys == {"title", "Title", "files", "Books", "book"}
\* The dicts read_json can return: no key twice.
SchemaDicts ==
    {d \in UNION {[1..n -> [name : SchemaKeys, type_raw : TypeRawPool]] : n \in 1..MaxItems} :
        \A i, j \in 1..Len(d) : i # j => d[i].name # d[j].name}

NoSchema == [exc |-> None, cls |-> None, arg |-> None, items |-> <<>>]
\* A Schema returned.
Schema(items) == [exc |-> None, cls |-> "Schema", arg |-> None, items |-> items]
\* An exception raised: cls is its class, exc the class it is caught as.
Raised(exc, cls, arg) == [exc |-> exc, cls |-> cls, arg |-> arg, items |-> <<>>]

\* The try block: the class name looked up in _SCHEMA_TYPE_MAPPING, or None
\* when the lookup raises (KeyError for an unknown or missing type,
\* AttributeError for a value that is neither a string nor a dict).
item_cls(type_raw) ==
    IF type_raw.form \in {"str", "dict"}
            /\ type_raw.type # None
            /\ lower(type_raw.type) \in _SCHEMA_TYPE_MAPPING
        THEN lower(type_raw.type)
        ELSE None

\* The mutant of item_init_ok: the constructor call never raises.
item_init_always_ok(cls, type_raw) == TRUE

\* item_cls(**item_cls_kwargs) raises TypeError unless the keywords are name
\* and exactly the fields of the class.
item_init_ok(cls, type_raw) == (type_raw.kw \ {"name"}) = ItemFields(cls)

\* One iteration of the loop over schema_dict.items(): the exception it
\* raises, or the item it appends wrapped as a Schema of one item.
schema_parse_item(name_raw, type_raw) ==
    LET name == lower(name_raw)
        cls == item_cls(type_raw)
        \* item_cls_kwargs.update(type_raw) replaces name
        kw_name == IF type_raw.form = "dict" /\ "name" \in type_raw.kw
                     THEN type_raw.name ELSE name
    IN  IF name \in _NAMES_RESERVED
            THEN Raised(SimpleEbookManagerExit, "_ReservedNameExit", name)
        ELSE IF cls = None
            THEN Raised(SimpleEbookManagerExit, "_InvalidTypeExit", name)
        ELSE IF ~item_init_ok(cls, type_raw)
            THEN Raised("TypeError", "TypeError", cls)
        ELSE Schema(<<[cls |-> cls, name |-> kw_name]>>)

SchemaParseItem ==
    /\ spc = "parse"
    /\ Len(schema_items) < Len(schema_dict)
    /\ LET d == schema_dict[Len(schema_items) + 1]
           r == schema_parse_item(d.name, d.type_raw)
       IN  IF r.cls # "Schema"
             THEN /\ schema' = r
                  /\ spc' = "raised"
                  /\ UNCHANGED schema_items
             ELSE /\ schema_items' = schema_items \o r.items
                  /\ UNCHANGED <<schema, spc>>
    /\ UNCHANGED <<schema_dict, nvars, xvars>>

ItemsOfType(items, cls) == SelectSeq(items, LAMBDA item : item.cls = cls)

\* The loop over _TYPES_REQUIRED.
SchemaCheckRequired ==
    /\ spc = "parse"
    /\ Len(schema_items) = Len(schema_dict)
    /\ LET missing == {k \in 1..Len(_TYPES_REQUIRED) :
                            ItemsOfType(schema_items, _TYPES_REQUIRED[k]) = <<>>}
       IN  IF missing # {}
             THEN /\ schema' = Raised(SimpleEbookManagerExit, "_MissingRequiredTypeExit",
                                      _TYPES_REQUIRED[Min(missing)])
                  /\ spc' = "raised"
             ELSE /\ spc' = "no_duplicates"
                  /\ UNCHANGED schema
    /\ UNCHANGED <<schema_dict, schema_items, nvars, xvars>>

\* The loop over _TYPES_NO_DUPLICATES, then return cls(tuple(schema_items)).
SchemaCheckNoDuplicates ==
    /\ spc = "no_duplicates"
    /\ LET dup == {k \in 1..Len(_TYPES_NO_DUPLICATES) :
                        Len(ItemsOfType(schema_items, _TYPES_NO_DUPLICATES[k])) > 1}
       IN  IF dup # {}
             THEN /\ schema' = Raised(SimpleEbookManagerExit, "_InvalidDuplicatesExit",
                                      _TYPES_NO_DUPLICATES[Min(dup)])
                  /\ spc' = "raised"
             ELSE /\ schema' = Schema(schema_items)
                  /\ spc' = "returned"
    /\ UNCHANGED <<schema_dict, schema_items, nvars, xvars>>

NInit ==
    /\ pc = "get_books"
    /\ run = 1
    /\ b_dirs = <<>>
    /\ titles = <<>> /\ displays = <<>> /\ sorts = <<>> /\ books = <<>>
    /\ book_title = NoTitle
    /\ key_type = None
    /\ rng = UUIDs
    /\ sd_sets = [f \in RefFieldSet |-> {}]
    /\ sd_dicts = <<>>
    /\ fi = 0 /\ bi = 0
    /\ err = NoErr
    /\ am = NoAM
    /\ am1 = NoAM

SIdle ==
    /\ schema_dict = <<>>
    /\ schema_items = <<>>
    /\ spc = "idle"
    /\ schema = NoSchema

Init == NInit /\ SIdle /\ XIdle

Next ==
    \/ GetBooksIter
    \/ NoBookDirs
    \/ GetBooksReturn
    \/ GetSdDictsUnion
    \/ GetSdDictsField
    \/ GetSdDictsReturn
    \/ GetBooksWithKeysIter
    \/ GetBooksWithKeysReturn
    \/ FromArgsReturn
    \/ FromArgsAgain

Spec == Init /\ [][Next]_vars

\* Schema.from_args alone, on every schema_dict of SchemaDicts.
NIdle ==
    /\ pc = "idle"
    /\ run = 1
    /\ b_dirs = <<>>
    /\ titles = <<>> /\ displays = <<>> /\ sorts = <<>> /\ books = <<>>
    /\ book_title = NoTitle
    /\ key_type = None
    /\ rng = UUIDs
    /\ sd_sets = [f \in RefFieldSet |-> {}]
    /\ sd_dicts = <<>>
    /\ fi = 0 /\ bi = 0
    /\ err = NoErr
    /\ am = NoAM
    /\ am1 = NoAM

SInit ==
    /\ schema_dict \in SchemaDicts
    /\ schema_items = <<>>
    /\ spc = "parse"
    /\ schema = NoSchema

InitSchema == NIdle /\ SInit /\ XIdle

NextSchema ==
    \/ SchemaParseItem
    \/ SchemaCheckRequired
    \/ SchemaCheckNoDuplicates

SpecSchema == InitSchema /\ [][NextSchema]_vars

\* Book.from_args on one book directory, Book.write_metadata into that
\* directory, and Book.from_args again.
InitBook == NIdle /\ SIdle /\ LInit /\ CIdle /\ DIdle /\ WIdle /\ VIdle /\ KIdle

NextBook ==
    \/ LoadTitle
    \/ LoadSkip
    \/ LoadSortDisplay
    \/ LoadFile
    \/ LoadString
    \/ LoadReturn
    \/ WriteMetadata
    \/ LoadAgain

SpecBook == InitBook /\ [][NextBook]_vars

\* csv._main: one call of AllMetadata.from_args, then _write_csvs.
NextCsv ==
    \/ GetBooksIter
    \/ NoBookDirs
    \/ GetBooksReturn
    \/ GetSdDictsUnion
    \/ GetSdDictsField
    \/ GetSdDictsReturn
    \/ GetBooksWithKeysIter
    \/ GetBooksWithKeysReturn
    \/ FromArgsReturn
    \/ WriteCsvs

SpecCsv == Init /\ [][NextCsv]_vars

\* db._write_db: _create_tables on a new connection.
InitDb == NIdle /\ SIdle /\ LIdle /\ CIdle /\ DInit /\ WIdle /\ VIdle /\ KIdle

NextDb ==
    \/ CreateTableBook
    \/ CreateFile
    \/ CreateKeyValue
    \/ CreateSortDisplay
    \/ CreateNothing
    \/ CreateViewSummary

SpecDb == InitDb /\ [][NextDb]_vars

\* db._main: one call of AllMetadata.from_args, then _write_db, twice.
NextWriteDb ==
    \/ GetBooksIter
    \/ NoBookDirs
    \/ GetBooksReturn
    \/ GetSdDictsUnion
    \/ GetSdDictsField
    \/ GetSdDictsReturn
    \/ GetBooksWithKeysIter
    \/ GetBooksWithKeysReturn
    \/ FromArgsReturn
    \/ WriteDbConnect
    \/ WriteDbCreateTables
    \/ InsertSortDisplays
    \/ InsertBooksBatch
    \/ WriteDbCommit
    \/ RunUserSql
    \/ WriteDbAgain

SpecWriteDb == Init /\ [][NextWriteDb]_vars

\* csv._main and db._main, each run twice on what from_args returned; the
\* two commands are separate runs of the program.
NextProject ==
    \/ GetBooksIter
    \/ NoBookDirs
    \/ GetBooksReturn
    \/ GetSdDictsUnion
    \/ GetSdDictsField
    \/ GetSdDictsReturn
    \/ GetBooksWithKeysIter
    \/ GetBooksWithKeysReturn
    \/ FromArgsReturn
    \/ (wpc = "idle" /\ WriteCsvs)
    \/ WriteCsvsAgain
    \/ (cpc = "idle" /\ WriteDbConnect)
    \/ WriteDbCreateTables
    \/ InsertSortDisplays
    \/ InsertBooksBatch
    \/ WriteDbCommit
    \/ RunUserSql
    \/ WriteDbAgain

SpecProject == Init /\ [][NextProject]_vars

\* The lookup formulas of a split export, one at a time.
InitVlookup == NIdle /\ SIdle /\ LIdle /\ CIdle /\ DIdle /\ WIdle /\ VInit /\ KIdle

NextVlookup ==
    \/ FileRowLookup
    \/ FieldLookup
    \/ FileHashLookup

SpecVlookup == InitVlookup /\ [][NextVlookup]_vars

\* clean, run twice over one library.
InitClean == NIdle /\ SIdle /\ LIdle /\ CIdle /\ DIdle /\ WIdle /\ VIdle /\ KInit

NextClean ==
    \/ CleanStart
    \/ WorkerFinish
    \/ GetFileHashesReturn
    \/ CleanBook
    \/ CleanFinish
    \/ CleanAgain

SpecClean == InitClean /\ [][NextClean]_vars

\* ================================================================ claims
\* The values of Reference field f over all books read.
UnionOf(f) == UNION {Range(b_dirs[i].fields.sortdisplays[f]) : i \in 1..Len(b_dirs)}
\* The sorts of f that have two displays, the displays of f that have two sorts.
SortsWithTwoDisplays(f) ==
    {x.sort : x \in {x \in UnionOf(f) :
        \E y \in UnionOf(f) : y.sort = x.sort /\ y.display # x.display}}
DisplaysWithTwoSorts(f) ==
    {x.display : x \in {x \in UnionOf(f) :
        \E y \in UnionOf(f) : y.display = x.display /\ y.sort # x.sort}}
BrokenField(f) == SortsWithTwoDisplays(f) # {} \/ DisplaysWithTwoSorts(f) # {}
\* from_args is past _get_sd_dicts
PastSdDicts == pc \in {"get_books_with_keys", "return", "done"}
Unkeyed(sd) == sd._key = None
NoKeyIn(bks) ==
    \A i \in 1..Len(bks) :
        /\ Unkeyed(bks[i].title)
        /\ \A f \in RefFieldSet : \A sd \in Range(bks[i].fields.sortdisplays[f]) : Unkeyed(sd)
SamePair(x, y) == x.sort = y.sort /\ x.display = y.display

\* C1: in every AllMetadata from_args returns, in any key mode, no two
\* entries of one field's registry have the same sort, and no two have the
\* same display.
C1_RegistryBijection ==
    pc = "done" =>
        \A f \in DOMAIN am.fields :
            \A i, j \in 1..Len(am.fields[f]) :
                i # j => /\ am.fields[f][i].sort # am.fields[f][j].sort
                         /\ am.fields[f][i].display # am.fields[f][j].display

\* C1 witness: a returned collection of two books whose authors registry
\* holds two entries.
C1_Witness ==
    /\ pc = "done"
    /\ Len(am.books) = 2
    /\ "authors" \in DOMAIN am.fields
    /\ Len(am.fields["authors"]) = 2

\* C2: a field whose union has a sort with two displays or a display with two
\* sorts is never passed by _get_sd_dicts; the error it raises is a
\* SimpleEbookManagerExit naming the first such field in schema order and, for
\* that field, a display that has two sorts if there is one and otherwise a
\* sort that has two displays (so a single broken bijection is named by its
\* field and its own value); the same pair held by two books is no error.
C2_PartialDuplicateReported ==
    /\ pc = "get_sd_dicts_loop" => \A k \in 1..fi : ~BrokenField(RefFields[k])
    /\ PastSdDicts => \A f \in RefFieldSet : ~BrokenField(f)
    /\ (pc = "error" /\ err.kind \in {"sd_display", "sd_sort"}) =>
        /\ err.exc = SimpleEbookManagerExit
        /\ err.field \in RefFieldSet
        /\ BrokenField(err.field)
        /\ \A k \in 1..Len(RefFields) :
                RefFields[k] = err.field => \A j \in 1..(k - 1) : ~BrokenField(RefFields[j])
        /\ IF DisplaysWithTwoSorts(err.field) # {}
              THEN err.kind = "sd_display" /\ err.val \in DisplaysWithTwoSorts(err.field)
              ELSE err.kind = "sd_sort" /\ err.val \in SortsWithTwoDisplays(err.field)
    /\ (pc \in {"get_sd_dicts", "get_sd_dicts_loop"} /\ \A f \in RefFieldSet : ~BrokenField(f))
            => err = NoErr

\* C2 witness: the editors of two books have one sort with two displays and
\* the error names editors and that sort.
C2_Witness ==
    /\ pc = "error"
    /\ err.kind = "sd_sort"
    /\ err.field = "editors"
    /\ err.val \in SortsWithTwoDisplays("editors")

\* The three cases of a title t against the titles of the books read before.
TitleRepeats(t, prev) == \E i \in 1..Len(prev) : SamePair(prev[i], t)
TitleDisplayOtherSort(t, prev) ==
    \E i \in 1..Len(prev) : prev[i].display = t.display /\ prev[i].sort # t.sort
TitleSortOtherDisplay(t, prev) ==
    \E i \in 1..Len(prev) : prev[i].sort = t.sort /\ prev[i].display # t.display

\* C3: the titles accepted so far are pairwise distinct in sort and in
\* display; a book whose title is in one of the three cases is rejected with
\* the SimpleEbookManagerExit of a case it is in, the three errors being
\* distinct: the repeated pair with the pair error, the display with another
\* sort with the display error, the sort with another display (and no
\* display clash) with the sort error.
C3_TitleThreeWayCheck ==
    /\ \A i, j \in 1..Len(titles) :
            i # j => titles[i].sort # titles[j].sort /\ titles[i].display # titles[j].display
    /\ pc \notin {"get_books", "error"} =>
            /\ Len(titles) = Len(b_dirs)
            /\ \A i \in 1..Len(b_dirs) : b_dirs[i].title = titles[i]
    /\ (pc = "get_books" /\ book_title # NoTitle) => book_title = titles[Len(titles)]
    /\ (pc = "error" /\ err.kind \in {"title_sort_display", "title_display", "title_sort"}) =>
        /\ err.exc = SimpleEbookManagerExit
        /\ \/ TitleRepeats(book_title, titles)
           \/ TitleDisplayOtherSort(book_title, titles)
           \/ TitleSortOtherDisplay(book_title, titles)
        /\ TitleRepeats(book_title, titles) <=>
                /\ err.kind = "title_sort_display"
                /\ err.val = book_title.sort /\ err.val2 = book_title.display
        /\ TitleDisplayOtherSort(book_title, titles) <=>
                (err.kind = "title_display" /\ err.val = book_title.display)
        /\ (TitleSortOtherDisplay(book_title, titles)
                /\ ~TitleDisplayOtherSort(book_title, titles)) <=>
                (err.kind = "title_sort" /\ err.val = book_title.sort)

\* C3 witness: the third book has the sort of one earlier title and the
\* display of another, and is rejected.
C3_Witness ==
    /\ pc = "error"
    /\ Len(titles) = 2
    /\ TitleSortOtherDisplay(book_title, titles)
    /\ TitleDisplayOtherSort(book_title, titles)

\* The SortDisplays a returned collection holds: titles, registry entries,
\* values held by the books.
TitlesOf(a) == {a.books[i].title : i \in 1..Len(a.books)}
EntriesOf(a) == UNION {Range(a.fields[f]) : f \in DOMAIN a.fields}
HeldBy(a) ==
    UNION {Range(a.books[i].fields.sortdisplays[f]) : i \in 1..Len(a.books), f \in RefFieldSet}
\* The books of b_dirs holding the pair of sd in field f.
HoldersOf(f, sd) ==
    {i \in 1..Len(b_dirs) : \E x \in Range(b_dirs[i].fields.sortdisplays[f]) : SamePair(x, sd)}

\* C4: after normalization with INT or UUID keys, every pair the books hold
\* in a field occurs exactly once in that field's registry, also when several
\* books hold it, and every value a returned book holds is that registry
\* entry, key included.
C4_BooksHoldRegistryEntries ==
    (pc = "done" /\ key_type \in {"INT", "UUID"}) =>
        \A f \in RefFieldSet :
            /\ \A sd \in UnionOf(f) :
                    /\ f \in DOMAIN am.fields
                    /\ Cardinality({k \in 1..Len(am.fields[f]) : SamePair(am.fields[f][k], sd)}) = 1
            /\ \A i \in 1..Len(am.books) :
                    \A sd \in Range(am.books[i].fields.sortdisplays[f]) :
                        /\ f \in DOMAIN am.fields
                        /\ sd \in Range(am.fields[f])
                        /\ \E e \in Range(am.fields[f]) : key(e) = key(sd)
            /\ \A i \in 1..Len(am.books) :
                    Len(am.books[i].fields.sortdisplays[f])
                        = Len(b_dirs[CHOOSE j \in 1..Len(b_dirs) :
                                SamePair(b_dirs[j].title, am.books[i].title)].fields.sortdisplays[f])

\* C4 witness: two books hold the same authors pair and the collection is
\* returned with keys.
C4_Witness ==
    /\ pc = "done"
    /\ key_type \in {"INT", "UUID"}
    /\ \E sd \in UnionOf("authors") : Cardinality(HoldersOf("authors", sd)) = 2

\* The 1-based rank of x among the values S in ascending sort order.
RankBySort(x, S) == 1 + Cardinality({y \in S : StrLt(y.sort, x.sort)})

\* C5: with INT keys, the key of a registry entry is its 1-based rank by sort
\* among the field's values, the key of a title is the book's 1-based rank
\* by title among all books, and so the keys of a registry and of the titles
\* are 1..n, each once.
C5_SequentialKeysAreRanks ==
    (pc = "done" /\ key_type = "INT") =>
        /\ \A f \in DOMAIN am.fields :
            /\ \A e \in Range(am.fields[f]) :
                    e._key = ToString(RankBySort(e, Range(am.fields[f])))
            /\ Len(am.fields[f]) = Cardinality(UnionOf(f))
            /\ {am.fields[f][k]._key : k \in 1..Len(am.fields[f])}
                    = {ToString(k) : k \in 1..Cardinality(UnionOf(f))}
        /\ \A t \in TitlesOf(am) : t._key = ToString(RankBySort(t, TitlesOf(am)))
        /\ Len(am.books) = Len(b_dirs)
        /\ {am.books[i].title._key : i \in 1..Len(am.books)}
                = {ToString(k) : k \in 1..Len(b_dirs)}

\* C5 witness: two books read in descending title order, two authors entries.
C5_Witness ==
    /\ pc = "done"
    /\ key_type = "INT"
    /\ Len(b_dirs) = 2
    /\ StrLt(b_dirs[2].title.sort, b_dirs[1].title.sort)
    /\ "authors" \in DOMAIN am.fields
    /\ Len(am.fields["authors"]) = 2

\* The keys a returned collection assigned.
KeysOf(a) == {sd._key : sd \in TitlesOf(a) \cup EntriesOf(a)}
NumKeyed(a) == Len(a.books) + Cardinality(EntriesOf(a))
DistinctKeys(a) ==
    /\ \A x, y \in TitlesOf(a) : x # y => x._key # y._key
    /\ \A x, y \in EntriesOf(a) : x # y => x._key # y._key
    /\ \A x \in TitlesOf(a) : \A y \in EntriesOf(a) : x._key # y._key
    /\ \A f, g \in DOMAIN a.fields : \A i \in 1..Len(a.fields[f]) : \A j \in 1..Len(a.fields[g]) :
            (f # g \/ i # j) => a.fields[f][i]._key # a.fields[g][j]._key

\* C6: the repeated call on the same books with the same key_type returns
\* the same AllMetadata for NONE and INT; for UUID both calls give every title
\* and registry entry a token of uuid4, no token twice within a call over
\* all titles and registries, and no token of the first call again in the
\* second.
C6_KeysOfRepeatedCall ==
    /\ (pc = "done" /\ key_type = "UUID") =>
            /\ KeysOf(am) \subseteq UUIDSet
            /\ DistinctKeys(am)
    /\ (pc = "done" /\ run = 2) =>
            /\ key_type \in {"NONE", "INT"} => am = am1
            /\ key_type = "UUID" =>
                /\ KeysOf(am) \cap KeysOf(am1) = {}
                /\ Len(am.books) = Len(am1.books)
                /\ \A i \in 1..Len(am.books) :
                        /\ SamePair(am.books[i].title, am1.books[i].title)
                        /\ am.books[i].title._key # am1.books[i].title._key
                /\ DOMAIN am.fields = DOMAIN am1.fields
                /\ \A f \in DOMAIN am.fields : \A k \in 1..Len(am.fields[f]) :
                        /\ SamePair(am.fields[f][k], am1.fields[f][k])
                        /\ am.fields[f][k]._key # am1.fields[f][k]._key

\* C6 witness: the repeated call returned, with UUID keys and a registry.
C6_Witness ==
    /\ pc = "done"
    /\ run = 2
    /\ key_type = "UUID"
    /\ Len(am.books) = 2
    /\ DOMAIN am.fields = RefFieldSet

TitlesClash(bks) ==
    \E i, j \in 1..Len(bks) :
        i # j /\ (bks[i].title.sort = bks[j].title.sort
                    \/ bks[i].title.display = bks[j].title.display)

\* C7: a call that ends in an error returns no AllMetadata and leaves every
\* book without keys; while any title or Reference check is still to fail or
\* to run, no book has a key; and no Reference-field union, registry entry or
\* key exists before every book is read and its title checked.
C7_AllOrNothing ==
    /\ pc = "error" => am = NoAM /\ NoKeyIn(books)
    /\ (\E f \in RefFieldSet : BrokenField(f)) => am = NoAM /\ NoKeyIn(books)
    /\ pc \in {"get_books", "get_sd_dicts", "get_sd_dicts_loop"} => am = NoAM /\ NoKeyIn(books)
    /\ pc = "get_books" =>
            /\ sd_dicts = <<>>
            /\ \A f \in RefFieldSet : sd_sets[f] = {}
    /\ pc \notin {"get_books", "error"} =>
            /\ Len(books) = Len(b_dirs)
            /\ ~TitlesClash(books)
    /\ (pc = "error" /\ err.kind \in {"sd_display", "sd_sort"}) =>
            /\ Len(books) = Len(b_dirs)
            /\ ~TitlesClash(books)

\* C7 witness: the second Reference field fails its check after the first
\* field's registry was built with keys.
C7_Witness ==
    /\ pc = "error"
    /\ err.field = "editors"
    /\ key_type = "INT"
    /\ "authors" \in DOMAIN sd_dicts
    /\ Len(books) = 2

\* C8: with key_type NONE no title, registry entry or held value of the
\* returned collection has a key, and reading its key raises
\* SimpleEbookManagerException; with INT or UUID every one has a key and
\* reading it gives that key.
C8_KeyDefinedIffAssigned ==
    pc = "done" =>
        \A sd \in TitlesOf(am) \cup EntriesOf(am) \cup HeldBy(am) :
            /\ key_type = "NONE" => sd._key = None /\ key(sd) = SimpleEbookManagerException
            /\ key_type # "NONE" =>
                    /\ sd._key # None
                    /\ key(sd) = sd._key
                    /\ key(sd) # SimpleEbookManagerException

\* C8 witness: a collection returned with key_type NONE whose registry and
\* books hold values.
C8_Witness ==
    /\ pc = "done"
    /\ key_type = "NONE"
    /\ EntriesOf(am) # {}
    /\ HeldBy(am) # {}

StrictlyAscending(seq, Lt(_, _)) == \A i \in 1..(Len(seq) - 1) : Lt(seq[i], seq[i + 1])
SortLt(x, y) == StrLt(x.sort, y.sort)
FilesOfBooks == UNION {Range(b_dirs[i].files) : i \in 1..Len(b_dirs)}
RECURSIVE SumLen(_)
SumLen(seqs) == IF seqs = <<>> THEN 0 ELSE Len(Head(seqs)) + SumLen(Tail(seqs))

\* C9: in every returned collection the books are in ascending title order,
\* every registry is in ascending sort order, and the file list is in
\* ascending order and holds exactly the files of all books, each once; the
\* books, registry values and files are those of the books read, whatever
\* the order they were read in.
C9_ResultSorted ==
    pc = "done" =>
        /\ StrictlyAscending(am.books, BookLt)
        /\ {[sort |-> t.sort, display |-> t.display] : t \in TitlesOf(am)}
                = {[sort |-> b.title.sort, display |-> b.title.display] : b \in Range(b_dirs)}
        /\ Len(am.books) = Len(b_dirs)
        /\ \A f \in DOMAIN am.fields :
                /\ StrictlyAscending(am.fields[f], SortLt)
                /\ {SortDisplay(e.sort, e.display, None) : e \in Range(am.fields[f])} = UnionOf(f)
        /\ \A f \in RefFieldSet : UnionOf(f) # {} => f \in DOMAIN am.fields
        /\ StrictlyAscending(am.files, FileLt)
        /\ Range(am.files) = FilesOfBooks
        /\ Len(am.files) = SumLen([i \in 1..Len(b_dirs) |-> b_dirs[i].files])

\* C9 witness: two books with files, read in descending title order.
C9_Witness ==
    /\ pc = "done"
    /\ Len(b_dirs) = 2
    /\ StrLt(b_dirs[2].title.sort, b_dirs[1].title.sort)
    /\ Len(b_dirs[1].files) = 2
    /\ Len(b_dirs[2].files) = 2
    /\ Len(am.files) = 4

\* What the source declares, read off schema_dict alone.
SourceKind(d) ==
    IF d.type_raw.form \in {"str", "dict"} /\ d.type_raw.type # None
        THEN lower(d.type_raw.type) ELSE None
SourceCount(kind) == Cardinality({i \in 1..Len(schema_dict) : SourceKind(schema_dict[i]) = kind})
SourceUnknownKind == \E i \in 1..Len(schema_dict) : SourceKind(schema_dict[i]) \notin _SCHEMA_TYPE_MAPPING
SourceReservedName == \E i \in 1..Len(schema_dict) : lower(schema_dict[i].name) \in _NAMES_RESERVED
SourceDefective ==
    \/ SourceUnknownKind
    \/ SourceReservedName
    \/ SourceCount("title") # 1
    \/ SourceCount("file") # 1

\* C10: Schema.from_args returns a Schema only for a source with exactly one
\* Title, exactly one FileSet and no reserved name, the Schema's declarations
\* being in source order; a source with an unknown kind, a reserved name, no
\* or several Titles, or no or several FileSets ends in a
\* SimpleEbookManagerExit and no Schema.
C10_SchemaRejectsAndReports ==
    /\ spc = "returned" =>
            /\ ~SourceDefective
            /\ Len(schema.items) = Len(schema_dict)
            /\ \A i \in 1..Len(schema_dict) :
                    schema.items[i].cls = SourceKind(schema_dict[i])
    /\ (spc \in {"returned", "raised"} /\ SourceDefective) =>
            /\ spc = "raised"
            /\ schema.exc = SimpleEbookManagerExit
            /\ schema.items = <<>>

\* The names the declarations of the source would be stored under.
SourceNames == [i \in 1..Len(schema_dict) |-> lower(schema_dict[i].name)]
SourceNameTwice == \E i, j \in 1..Len(schema_dict) : i # j /\ SourceNames[i] = SourceNames[j]

\* C11: a Schema returned by Schema.from_args has pairwise distinct stored
\* field names, and a source that yields two declarations of one name ends in
\* an exception and no Schema.
C11_SchemaNamesDistinct ==
    /\ spc = "returned" =>
            \A i, j \in 1..Len(schema.items) :
                i # j => schema.items[i].name # schema.items[j].name
    /\ (spc \in {"returned", "raised"} /\ SourceNameTwice) =>
            /\ spc = "raised"
            /\ schema.exc # None

\* ---- the loader, read off the metadata record and the Book alone
\* The values a Title or SortDisplay input lists, in input order.
SdElems(raw) ==
    IF raw.form = "null" THEN <<>> ELSE IF raw.form = "list" THEN raw.items ELSE <<raw>>
SdWellFormed(raw) ==
    \A i \in 1..Len(SdElems(raw)) :
        \/ SdElems(raw)[i].form = "str"
        \/ /\ SdElems(raw)[i].form = "dict"
           /\ SdElems(raw)[i].sort # None /\ SdElems(raw)[i].display # None
\* The (sort, display) a well-formed element stands for.
SdValue(e) == IF e.form = "str" THEN <<e.sort, e.sort>> ELSE <<e.sort, e.display>>
SdValues(raw) == [i \in 1..Len(SdElems(raw)) |-> SdValue(SdElems(raw)[i])]
RepeatedAt(raw, k) ==
    {SdValues(raw)[i][k] : i \in {i \in 1..Len(SdValues(raw)) :
        \E j \in 1..Len(SdValues(raw)) : j # i /\ SdValues(raw)[j][k] = SdValues(raw)[i][k]}}
\* Book.from_args is past the schema item at position n / was ended by it.
FieldLoaded(n) == lpc \in {"fields", "returned", "written"} /\ li >= n
FieldFailed(n) == lpc = "raised" /\ li = n - 1
AuthorsIn == metadata.authors
AuthorsOut == lbook.fields.sortdisplays["authors"]

\* C12: for the SortDisplay field of one book, a well-formed input with two
\* values of one sort or of one display ends the load with a
\* SimpleEbookManagerExit naming the field and the repeated value; any other
\* well-formed input is returned as one SortDisplay per input value, a bare
\* string s as (s, s), in strictly ascending sort order whatever the input
\* order, a single value like the one-element list and null as the empty
\* tuple.  The title goes through the same loader: repeated values are
\* rejected, and the book's title is the least of the values.
C12_SortDisplaysLoaded ==
    /\ (FieldLoaded(2) \/ FieldFailed(2)) /\ SdWellFormed(AuthorsIn) =>
        IF RepeatedAt(AuthorsIn, 1) # {} \/ RepeatedAt(AuthorsIn, 2) # {}
          THEN /\ FieldFailed(2)
               /\ lerr.exc = SimpleEbookManagerExit
               /\ lerr.field = "authors"
               /\ \/ lerr.kind = "duplicate_sort" /\ lerr.val \in RepeatedAt(AuthorsIn, 1)
                  \/ lerr.kind = "duplicate_display" /\ lerr.val \in RepeatedAt(AuthorsIn, 2)
          ELSE /\ FieldLoaded(2)
               /\ Len(AuthorsOut) = Len(SdElems(AuthorsIn))
               /\ {<<AuthorsOut[i].sort, AuthorsOut[i].display>> : i \in 1..Len(AuthorsOut)}
                    = Range(SdValues(AuthorsIn))
               /\ \A i \in 1..Len(AuthorsOut) - 1 :
                    StrLt(AuthorsOut[i].sort, AuthorsOut[i + 1].sort)
    /\ (FieldLoaded(0) \/ FieldFailed(1)) /\ SdWellFormed(metadata.title) =>
        IF RepeatedAt(metadata.title, 1) # {} \/ RepeatedAt(metadata.title, 2) # {}
          THEN FieldFailed(1) /\ lerr.exc = SimpleEbookManagerExit /\ lerr.field = "title"
          ELSE SdElems(metadata.title) # <<>> =>
                /\ FieldLoaded(0)
                /\ <<lbook.title.sort, lbook.title.display>> \in Range(SdValues(metadata.title))
                /\ \A v \in Range(SdValues(metadata.title)) :
                        v[1] = lbook.title.sort \/ StrLt(lbook.title.sort, v[1])

\* Two values given in descending order were loaded.
C12_Witness ==
    /\ FieldLoaded(2)
    /\ lrun = 1
    /\ AuthorsIn = JList(<<JStr("b"), JStr("a")>>)
    /\ Len(AuthorsOut) = 2

\* The entries a File input lists, in input order.
FileElems(raw) == IF raw.form = "dict" THEN <<raw>> ELSE raw.items
FilesWellFormed(raw) == \A i \in 1..Len(FileElems(raw)) : FileElems(raw)[i].hash # None
RepeatedNames(raw) ==
    {FileElems(raw)[i].name : i \in {i \in 1..Len(FileElems(raw)) :
        \E j \in 1..Len(FileElems(raw)) : j # i /\ FileElems(raw)[j].name = FileElems(raw)[i].name}}
\* The variables a directory expression refers to that the caller did not supply.
Unsupplied(directory) ==
    {v \in {"root"} : \E i \in 1..Len(directory) : directory[i] = "{" \o v \o "}"}
    \ {dir_vars[i].name : i \in 1..Len(dir_vars)}
SomeUnsupplied(raw) ==
    \E i \in 1..Len(FileElems(raw)) : Unsupplied(FileElems(raw)[i].directory) # {}

\* C13: for the File field of one book, a single object is loaded like the
\* one-element list; an input with two entries of one basename ends the load
\* with a SimpleEbookManagerExit, which names the repeated basename unless
\* the failure is an unsupplied directory variable of an entry; any other
\* input whose variables are supplied is returned as one BookFile per entry
\* in strictly ascending basename order whatever the input order, an entry
\* without directory being placed in the metadata record's own directory.
C13_FilesLoaded ==
    (FieldLoaded(3) \/ FieldFailed(3)) /\ FilesWellFormed(metadata.files) =>
        IF RepeatedNames(metadata.files) # {}
          THEN /\ FieldFailed(3)
               /\ lerr.exc = SimpleEbookManagerExit
               /\ lerr.kind \in {"duplicate_file", "not_enough_dir_vars"}
               /\ lerr.kind = "duplicate_file" => lerr.val \in RepeatedNames(metadata.files)
               /\ ~SomeUnsupplied(metadata.files) => lerr.kind = "duplicate_file"
        ELSE IF SomeUnsupplied(metadata.files)
          THEN FieldFailed(3)
          ELSE /\ FieldLoaded(3)
               /\ Len(lbook.files) = Len(FileElems(metadata.files))
               /\ \A i \in 1..Len(lbook.files) - 1 :
                    StrLt(lbook.files[i].basename, lbook.files[i + 1].basename)
               /\ \A i \in 1..Len(FileElems(metadata.files)) :
                    LET e == FileElems(metadata.files)[i] IN
                    \E k \in 1..Len(lbook.files) :
                        /\ lbook.files[k].basename = e.name
                        /\ lbook.files[k].hash = e.hash
                        /\ e.directory = NoDir =>
                                lbook.files[k].fn = Append(lbook.metadata_dir, e.name)
                        /\ e.directory # NoDir => lbook.files[k].input_dir_str = e.directory

\* Two entries given in descending basename order, one without directory, were loaded.
C13_Witness ==
    /\ FieldLoaded(3)
    /\ lrun = 1
    /\ metadata.files = JFiles(<<JFile("y", <<"..">>, "md5:0"), JFile("x", NoDir, "md5:0")>>)
    /\ Len(lbook.files) = 2
    /\ lbook.files[1].fn = <<"/", "lib", "book", "x">>

\* Where a directory expression puts a file named basename, its variables being supplied.
ExpectedFn(directory, basename) ==
    LET root == IF \E i \in 1..Len(dir_vars) : dir_vars[i].name = "root"
                  THEN (CHOOSE d \in Range(dir_vars) : d.name = "root").value ELSE None
    IN  CASE directory = <<".">> -> <<"/", "lib", "book", basename>>
          [] directory = <<"..">> -> <<"/", "lib", basename>>
          [] directory = <<"/", "abs">> -> <<"/", "abs", basename>>
          [] directory = <<"{root}", "s">> /\ root = "/r" -> <<"/", "r", "s", basename>>
          [] directory = <<"{root}", "s">> /\ root = "rel" ->
                <<"/", "lib", "book", "rel", "s", basename>>

\* C14: a load that fails over dir_vars raises a SimpleEbookManagerExit that
\* carries the directory expression of an entry referring to an unsupplied
\* variable and the supplied dir_vars as name=value strings, "<none
\* provided>" when there are none, and no BookFile is kept; an input without
\* repeated basename fails so whenever an entry refers to an unsupplied
\* variable; variables no entry uses do not matter; a loaded file lies
\* under the interpolated directory, taken as it is when absolute and
\* resolved against the metadata directory when relative.
C14_DirVars ==
    /\ (FieldFailed(3) /\ lerr.kind = "not_enough_dir_vars") =>
        /\ lerr.exc = SimpleEbookManagerExit
        /\ \E i \in 1..Len(FileElems(metadata.files)) :
                /\ FileElems(metadata.files)[i].directory = lerr.input_dir_str
                /\ Unsupplied(lerr.input_dir_str) # {}
        /\ lerr.dir_vars_str =
                IF dir_vars = <<>> THEN <<"<none provided>">>
                ELSE [i \in 1..Len(dir_vars) |-> dir_vars[i].name \o "=" \o dir_vars[i].value]
        /\ lbook.files = <<>>
    /\ ((FieldLoaded(3) \/ FieldFailed(3)) /\ FilesWellFormed(metadata.files)
            /\ RepeatedNames(metadata.files) = {} /\ SomeUnsupplied(metadata.files)) =>
        FieldFailed(3) /\ lerr.kind = "not_enough_dir_vars"
    /\ FieldLoaded(3) =>
        \A k \in 1..Len(lbook.files) :
            /\ Unsupplied(lbook.files[k].input_dir_str) = {}
            /\ lbook.files[k].fn = ExpectedFn(lbook.files[k].input_dir_str, lbook.files[k].basename)

\* A file under {root}/s was loaded with root relative and a variable nothing uses.
C14_Witness ==
    /\ FieldLoaded(3)
    /\ lrun = 1
    /\ Len(dir_vars) = 2
    /\ \E k \in 1..Len(lbook.files) :
        /\ lbook.files[k].input_dir_str = <<"{root}", "s">>
        /\ lbook.files[k].fn = <<"/", "lib", "book", "rel", "s", "y">>

NotesItem == lschema[4]
NotesOut == lbook.fields.strings["notes"]

\* C15: a String field declared external whose name is in the metadata
\* record, and a String field declared inline whose text file exists, both
\* end the load with a SimpleEbookManagerExit; an inline field whose name is
\* in the record and that has no text file takes the record's value; an
\* external field not in the record takes the file's text without the title
\* banner, or no value when there is no file.
C15_StringStorage ==
    (lrun = 1 /\ (FieldLoaded(4) \/ FieldFailed(4))) =>
        /\ (~NotesItem.inline /\ metadata.notes.present) =>
                FieldFailed(4) /\ lerr.exc = SimpleEbookManagerExit
        /\ (NotesItem.inline /\ string_fn.is_file) =>
                FieldFailed(4) /\ lerr.exc = SimpleEbookManagerExit
        /\ (NotesItem.inline /\ metadata.notes.present /\ ~string_fn.is_file) =>
                FieldLoaded(4) /\ NotesOut = metadata.notes.val
        /\ (~NotesItem.inline /\ ~metadata.notes.present) =>
                /\ FieldLoaded(4)
                /\ NotesOut = IF string_fn.is_file
                                THEN removeprefix(string_fn.text, _str_title_prefix(lbook.title.display))
                                ELSE NoText

\* C16: a book directory that loads is, after Book.write_metadata into the
\* same directory, loaded again without error as a Book equal to the first
\* in title, fields and files.
C16_RoundTrip ==
    lrun = 2 =>
        /\ lpc # "raised"
        /\ lpc = "returned" => lbook = lbook1

\* ---- the exports, read off the AllMetadata and the files written
RECURSIVE Joined(_)
\* The strings of a sequence with ";" between them.
Joined(strs) ==
    IF strs = <<>> THEN "" ELSE IF Len(strs) = 1 THEN strs[1]
    ELSE strs[1] \o ";" \o Joined(Tail(strs))
\* The file of the export named stem.
Sheet(stem) == (CHOOSE f \in Range(csv_files) : f.stem = stem).rows
Stems == [i \in 1..Len(csv_files) |-> csv_files[i].stem]
Exported == pc = "done" /\ cpc \in {"written", "raised"}

\* C17: the flat export is the one file books with one row per book of the
\* AllMetadata in the books' order, which is strictly ascending title sort;
\* in the row of a book, each SortDisplay field's sort cell and display cell
\* are the sorts and the displays of the book's values joined by ";", the
\* values being in strictly ascending sort order in both, and the File cell
\* is the book's files as basename::hash joined by ";".
C17_FlatExport ==
    (Exported /\ ~split) =>
        /\ cpc = "written"
        /\ Stems = <<"books">>
        /\ Len(Sheet("books")) = Len(am.books)
        /\ \A b \in 1..Len(am.books) :
            LET row == Sheet("books")[b]
                book == am.books[b]
            IN  /\ row["title_sort"] = Text(book.title.sort)
                /\ row["title_display"] = Text(book.title.display)
                /\ b < Len(am.books) => StrLt(book.title.sort, am.books[b + 1].title.sort)
                /\ \A f \in RefFieldSet :
                    LET sds == book.fields.sortdisplays[f] IN
                    /\ \A i \in 1..Len(sds) - 1 : StrLt(sds[i].sort, sds[i + 1].sort)
                    /\ row[f \o "_sort"] = Text(Joined([i \in 1..Len(sds) |-> sds[i].sort]))
                    /\ row[f \o "_display"] = Text(Joined([i \in 1..Len(sds) |-> sds[i].display]))
                /\ row["files"] =
                    Text(Joined([i \in 1..Len(book.files) |->
                            book.files[i].basename \o "::" \o book.files[i].hash]))

\* A flat export of a book with two values in a field and two files.
C17_Witness ==
    /\ cpc = "written"
    /\ ~split
    /\ \E b \in 1..Len(am.books) :
        /\ Len(am.books[b].fields.sortdisplays["authors"]) = 2
        /\ Len(am.books[b].files) = 2
        /\ Sheet("books")[b]["authors_display"].text = "a;b"

\* C18: a split export of an AllMetadata from_args returned writes the file
\* books, one file per SortDisplay field and the file of the File field;
\* books has one row per book, a field's file one row per entry of the
\* field's registry, and the File field's file one row per file of all books.
C18_SplitExportSheets ==
    (Exported /\ split) =>
        /\ cpc = "written"
        /\ Stems = <<"books">> \o RefFields \o <<"files">>
        /\ Len(Sheet("books")) = Len(am.books)
        /\ \A f \in RefFieldSet :
            Len(Sheet(f)) = Cardinality(UNION {Range(am.books[b].fields.sortdisplays[f]) :
                                                b \in 1..Len(am.books)})
        /\ Len(Sheet("files")) = SumLen([b \in 1..Len(am.books) |-> am.books[b].files])

\* What a VLOOKUP finds: the cell in column colname of the row, among the
\* first num_all_rows rows of the sheet, whose key is the key looked up.
Found(v) ==
    {r \in 1..Len(Sheet(v.sheetname)) :
        /\ r <= v.num_all_rows
        /\ Sheet(v.sheetname)[r]["key"].text = v.key}
ArgValue(v) ==
    IF v.kind = "lit" THEN v.text
    ELSE IF Found(v) = {} THEN "#N/A"
    ELSE Sheet(v.sheetname)[CHOOSE r \in Found(v) : TRUE][v.colname].text
RECURSIVE Concatenated(_)
Concatenated(strs) == IF strs = <<>> THEN "" ELSE strs[1] \o Concatenated(Tail(strs))
\* The string a cell of books shows once its formula is evaluated.
CellValue(cell) ==
    IF cell.form = "text" THEN cell.text
    ELSE Concatenated([i \in 1..Len(cell.args) |-> ArgValue(cell.args[i])])
\* The rows the flat export writes for the same AllMetadata.
FlatRows == _get_book_rows(am, am_schema, _get_book_colnames(am_schema, FALSE), 9, FALSE).rows
ValueColumns == {f \o "_sort" : f \in RefFieldSet} \cup {f \o "_display" : f \in RefFieldSet} \cup {"files"}

\* C19: in a split export every SortDisplay cell and every File cell of
\* books evaluates, its lookups resolved in the field's file or the File
\* field's file, to the text the flat export has in that cell, and the cell
\* of a book without values for the field is empty as it is in the flat
\* export.
C19_SplitMatchesFlat ==
    (cpc = "written" /\ split) =>
        \A b \in 1..Len(am.books) : \A c \in ValueColumns :
            /\ CellValue(Sheet("books")[b][c]) = FlatRows[b][c].text
            /\ FlatRows[b][c].text = "" => Sheet("books")[b][c] = Text("")

\* ---- the database objects, read off the schema and the statements executed

\* The position of the schema item a statement was created for.
FieldAt(st) == CHOOSE i \in 1..Len(dschema) : dschema[i].name = st.field

\* The positions in executed of the statements created for item i.
ObjectsOf(i) == {k \in 1..Len(executed) : executed[k].field = dschema[i].name}

\* The kinds and names of the objects created for item i, in creation order.
Created(i) ==
    LET ks == ObjectsOf(i)
        nth[n \in 0..Cardinality(ks)] ==
            IF n = 0 THEN <<>>
            ELSE LET k == CHOOSE x \in ks : Cardinality({y \in ks : y < x}) = n - 1
                 IN  Append(nth[n - 1], <<executed[k].kind, executed[k].name>>)
    IN  nth[Cardinality(ks)]

\* The objects an item of each kind owns.
Owned(item) ==
    CASE item.cls \in {"file", "keyvalue"} ->
            << <<"table", "book_" \o item.name>>, <<"view", "v_book_" \o item.name>> >>
      [] item.cls = "sortdisplay" ->
            << <<"table", item.name>>, <<"table", "book_" \o item.name>>,
               <<"view", "v_book_" \o item.name>> >>
      [] OTHER -> <<>>

\* Every table a statement names was created by an earlier statement.
ReferencesCreated ==
    \A k \in 1..Len(executed) : \A r \in executed[k].refs :
        \E m \in 1..(k - 1) : executed[m].kind = "table" /\ executed[m].name = r

\* The place of a statement in the order the claim gives: the book table, the
\* objects of file fields, of keyvalue fields, of sortdisplay fields, the
\* summary view.
KindRank(st) ==
    CASE st.name = "book" -> 0
      [] st.name = "v_summary" -> 4
      [] dschema[FieldAt(st)].cls = "file" -> 1
      [] dschema[FieldAt(st)].cls = "keyvalue" -> 2
      [] OTHER -> 3

\* C20 (as stated): once _create_tables has returned, the statements ran in
\* the order book table, then the table and view of every file field, then
\* the table and view of every keyvalue field, then the table, join table and
\* view of every sortdisplay field, then the summary view; and every table a
\* statement references was created before it.
C20_KindOrder ==
    dpc = "done" =>
        /\ \A k, m \in 1..Len(executed) :
                k < m => KindRank(executed[k]) <= KindRank(executed[m])
        /\ ReferencesCreated

\* C20 (amended): the book table is created first and the summary view last;
\* in between, the fields that own objects are taken in schema order, each
\* creating its own objects together (file and keyvalue: table, view;
\* sortdisplay: table, join table, view; date, string and title: nothing);
\* at every moment every table a statement references was created before it.
C20_SchemaOrder ==
    /\ ReferencesCreated
    /\ dpc \in {"items", "done"} =>
        /\ executed[1].kind = "table" /\ executed[1].name = "book"
        /\ \A k \in 2..Len(executed) : executed[k].name # "book"
        /\ \A k, m \in 2..Len(executed) :
                (k < m /\ executed[k].field # None /\ executed[m].field # None)
                    => FieldAt(executed[k]) <= FieldAt(executed[m])
        /\ \A i \in 1..di : Created(i) = Owned(dschema[i])
        /\ \A i \in (di + 1)..Len(dschema) : Created(i) = <<>>
    /\ dpc = "items" => \A k \in 1..Len(executed) : executed[k].name # "v_summary"
    /\ dpc = "done" =>
        /\ di = Len(dschema)
        /\ executed[Len(executed)].kind = "view"
        /\ executed[Len(executed)].name = "v_summary"
        /\ \A k \in 1..(Len(executed) - 1) : executed[k].name # "v_summary"

\* _create_tables has returned for a schema that puts a sortdisplay field
\* before a keyvalue field and the keyvalue field before the file field.
C20_Witness ==
    /\ dpc = "done"
    /\ \E i, j, k \in 1..Len(dschema) :
        /\ i < j /\ j < k
        /\ dschema[i].cls = "sortdisplay"
        /\ dschema[j].cls = "keyvalue"
        /\ dschema[k].cls = "file"
    /\ Len(executed) = 9

\* ---- the database, read off the AllMetadata and the rows inserted

\* _write_db has returned without an exception.
Written == wpc = "done"

\* C21: no collection from_args accepts makes an insert of _write_db violate
\* a table constraint; in particular not one in which two books own a file
\* of the same basename.
C21_StoreAcceptsCollection ==
    wpc = "raised" => werr \notin IntegrityErrors

RECURSIVE Ascending(_)
\* The strings of a set, least first.
Ascending(S) ==
    IF S = {} THEN <<>>
    ELSE LET m == CHOOSE x \in S : \A y \in S \ {x} : StrLt(x, y)
         IN  <<m>> \o Ascending(S \ {m})

\* The aggregated cell of a set of values: NULL for none.
Aggregated(S) == IF S = {} THEN None ELSE Joined(Ascending(S))

\* The file elements of a book, least basename first.
FileElements(book) ==
    LET names == Ascending({book.files[k].basename : k \in 1..Len(book.files)})
    IN  [n \in 1..Len(names) |->
            LET f == CHOOSE f \in Range(book.files) : f.basename = names[n]
            IN  f.basename \o "::" \o f.hash]

Reverse(seq) == [k \in 1..Len(seq) |-> seq[Len(seq) + 1 - k]]

\* C22: once _write_db has returned, v_summary has one row per book of the
\* collection, in title order; the sort cell and the display cell of every
\* sortdisplay field hold the book's sorts, and its displays, each in
\* ascending order of itself joined by ';', the files cell the book's files
\* in ascending order; a book without values has NULL cells; and the view
\* over the same rows inserted in the opposite order is the same.
C22_SummaryView ==
    Written =>
        LET view == v_summary(conn.rows, am_schema) IN
        /\ Len(view) = Len(am.books)
        /\ \A b \in 1..Len(am.books) :
            /\ view[b].book_pkey = key(am.books[b].title)
            /\ view[b].files =
                    IF am.books[b].files = <<>> THEN None
                    ELSE Joined(FileElements(am.books[b]))
            /\ \A f \in RefFieldSet :
                LET sds == Range(am.books[b].fields.sortdisplays[f]) IN
                /\ view[b][f \o "_sort"] = Aggregated({sd.sort : sd \in sds})
                /\ view[b][f \o "_display"] = Aggregated({sd.display : sd \in sds})
        /\ v_summary(Reverse(conn.rows), am_schema) = view

\* _write_db has returned for two books, one without any value, one with
\* two files and two authors whose displays ascend against their sorts.
C22_Witness ==
    /\ Written
    /\ Len(am.books) = 2
    /\ \E b \in 1..2 :
        /\ am.books[b].files = <<>>
        /\ \A f \in RefFieldSet : am.books[b].fields.sortdisplays[f] = <<>>
    /\ \E b \in 1..2 :
        LET a == am.books[b].fields.sortdisplays["authors"] IN
        /\ Len(am.books[b].files) = 2
        /\ Len(a) = 2
        /\ StrLt(a[1].sort, a[2].sort)
        /\ StrLt(a[2].display, a[1].display)

\* C23: a second call of _write_csvs (flat or split) into the directory the
\* first call wrote leaves the same files with the same rows, and a second
\* call of _write_db on the database file the first call wrote ends without
\* an exception and leaves the same objects and the same rows.
C23_ProjectTwice ==
    /\ cpc \in {"written_again", "raised_again"} =>
        /\ cpc = "written_again"
        /\ csv_files = csv_files1
    /\ (wrun = 2 /\ wpc \in {"done", "raised"}) =>
        /\ wpc = "done"
        /\ conn = conn1

\* The second call of _write_db has returned for a collection with files
\* and authors.
C23_Witness ==
    /\ wrun = 2 /\ wpc = "done"
    /\ conn1.rows # <<>>
    /\ \E k \in 1..Len(conn.rows) : conn.rows[k].table = "book_files"
    /\ \E k \in 1..Len(conn.rows) : conn.rows[k].table = "book_authors"

\* The second call of _write_csvs has returned from a split export.
C23_WitnessCsv ==
    /\ cpc = "written_again"
    /\ split
    /\ Len(csv_files) > 1

\* C25: the AllMetadata from_args returns has an entry in fields for every
\* sortdisplay field of the schema, so neither the split export nor
\* _insert_sortdisplays ends with KeyError.
C25_RegistryComplete ==
    /\ pc = "done" => \A f \in RefFieldSet : f \in DOMAIN am.fields
    /\ cpc = "raised" => cerr # "KeyError"
    /\ wpc = "raised" => werr # "KeyError"

\* The text a cell of v_summary shows: nothing for NULL.
Shown(v) == IF v = None THEN "" ELSE v

\* C26: once _write_db has returned, every sort cell, display cell and files
\* cell of v_summary shows the text the flat export writes in that cell for
\* the same book: the values in ascending sort order, the i-th display next
\* to the i-th sort, the files in the same order.
C26_ConsumersAgree ==
    Written =>
        \A b \in 1..Len(am.books) : \A c \in ValueColumns :
            Shown(v_summary(conn.rows, am_schema)[b][c]) = FlatRows[b][c].text

\* The positions of the rows of a set of tables among the rows inserted.
RowsIn(tables) == {k \in 1..Len(conn.rows) : conn.rows[k].table \in tables}

EntityTables == RefFieldSet
PostTables == {"book_" \o f : f \in RefFieldSet} \cup {"book_files"}

\* The keys of the books whose rows are in the book table, in insertion order.
BooksInserted ==
    [k \in 1..Len(TableRows(conn.rows, "book")) |-> TableRows(conn.rows, "book")[k].row.pkey]

ColumnName(n) ==
    LET letter(i) == CodePoints[i] IN
    IF n <= 26 THEN letter(n) ELSE letter((n - 1) \div 26) \o letter(((n - 1) % 26) + 1)

\* The number of columns of the sheet a lookup formula looks into.
TargetColumns ==
    CASE vlookup.sheetname = "books" -> Len(_get_book_colnames(vschema, TRUE))
      [] vlookup.sheetname = "files" -> Len(_get_file_colnames(vschema))
      [] OTHER -> 3

\* C28: for every accepted schema and every collection size, a lookup
\* formula addresses the range from A2 to the last column letter of its
\* target sheet and the last data row (row count + 1), and writes its key
\* quoted exactly when the key is not an integer.
C28_LookupRange ==
    vpc = "done" =>
        /\ vlookup.endcolchr = ColumnName(TargetColumns)
        /\ vlookup.endrow = vnum_rows + 1
        /\ vlookup.quoted = (vlookup.key \notin {"1", "2"})

\* ---------------------------------------------------------------- C24
\* The files the run wrote for the i-th book into the temporary directory.
Reserialized(i) == Range(write_metadata(kam[i], CleanSchema))

\* C24: when a clean run finishes, every book has been processed, exactly
\* the files whose re-serialized content differs from the file the run
\* found are replaced, and a run repeated at once with the same options
\* finds every re-serialized file identical to the one on disk, replaces no
\* file and reports that no changes were needed.
C24_CleanIdempotent ==
    kpc = "finished" =>
        /\ ki = Len(library)
        /\ \A i \in 1..Len(library) : \A o \in Reserialized(i) :
            /\ (<<i, o.name>> \in Range(replaced)) <=>
                    (o.content # orig_content(lib_before[i], o.name))
            /\ orig_content(library[i], o.name) = o.content
        /\ krun = 2 =>
            /\ \A i \in 1..Len(library) : \A o \in Reserialized(i) :
                    o.content = orig_content(lib_before[i], o.name)
            /\ replaced = <<>>
            /\ library = lib_before
            /\ kmsg = "Finished processing, no changes needed."

\* ---------------------------------------------------------------- C30
\* The File values of the metadata record of a book directory.
StoredFiles(dir_) ==
    LET f == dir_.metadata.value.files IN IF f.form = "dict" THEN <<f>> ELSE f.items

\* The resolved path of a stored File of the i-th book.
ResolvedPath(i, f_dict) ==
    BookFile_from_args("a", f_dict.name, CleanDir(i), <<>>,
                       IF f_dict.directory = NoDir THEN default_dir ELSE f_dict.directory,
                       f_dict.hash).file[1].fn

\* C30: with hash update enabled, whatever order the workers finished in,
\* after clean completes every stored hash is the hash computed for the
\* file's own resolved path, a stored hash that matched already is what it
\* was, and no file has the hash computed for another file's path.
C30_HashesJoinedByPath ==
    (kpc = "finished" /\ kalgo # None) =>
        \A i \in 1..Len(library) :
            /\ Len(StoredFiles(library[i])) = Len(StoredFiles(lib_before[i]))
            /\ \A f_dict \in Range(StoredFiles(library[i])) :
                /\ f_dict.hash = _get_file_hash(ResolvedPath(i, f_dict), kalgo)
                /\ \A j \in 1..Len(library) : \A g_dict \in Range(StoredFiles(library[j])) :
                        ResolvedPath(j, g_dict) # ResolvedPath(i, f_dict) =>
                            f_dict.hash # _get_file_hash(ResolvedPath(j, g_dict), kalgo)
            /\ \A f_dict \in Range(StoredFiles(lib_before[i])) :
                    f_dict.hash = _get_file_hash(ResolvedPath(i, f_dict), kalgo) =>
                        \E g_dict \in Range(StoredFiles(library[i])) :
                            /\ g_dict.name = f_dict.name
                            /\ g_dict.hash = f_dict.hash

\* The first run has ended; the workers finished in an order that is not
\* the order of the tasks, and two stored hashes were each other's.
C30_Witness ==
    /\ kpc = "finished"
    /\ krun = 1
    /\ kalgo = "md5"
    /\ Len(finished) = 3
    /\ finished[1] = 3
    /\ finished[2] = 1
    /\ \E f_dict \in Range(StoredFiles(lib_before[1])) :
        /\ f_dict.name = "x"
        /\ f_dict.hash = _get_file_hash(CleanDir(1) \o <<"y">>, "md5")

\* ---------------------------------------------------------------- C29
Distinct(names) == \A i, j \in 1..Len(names) : i # j => names[i] # names[j]

\* The names of the tables and views _create_tables creates for the Schema.
ArtifactNames ==
    LET statements == _create_tables(schema.items, FALSE)
    IN  [i \in 1..Len(statements) |-> statements[i].name]

\* The stems of the files of a split export: the primary sheet, then one
\* sheet per SortDisplay or File field.
SheetStems ==
    LET sheets == items_of(schema.items, {"sortdisplay", "file"})
    IN  <<"books">> \o [i \in 1..Len(sheets) |-> sheets[i].name]

\* C29: for every Schema that Schema.from_args returns, the names of the
\* tables and views are pairwise distinct, the column names of the book
\* table and of the primary sheet are pairwise distinct, and no field sheet
\* has the file name of the primary sheet.
C29_NamesDistinct ==
    spc = "returned" =>
        /\ Distinct(ArtifactNames)
        /\ Distinct(book_columns(schema.items))
        /\ Distinct(_get_book_colnames(schema.items, FALSE))
        /\ Distinct(_get_book_colnames(schema.items, TRUE))
        /\ \A i \in 2..Len(SheetStems) : SheetStems[i] # "books"

====
